---- MODULE Spec2Model ----
(***************************************************************************)
(* Verification model of the AI code review pipeline of ai-sdlc-suite      *)
(* (app/ai_code_review): archive normalisation, checklist scoring, the     *)
(* /review request handler and the REPORT_CACHE with its lazy sweep.       *)
(*                                                                         *)
(* Conventions                                                             *)
(*   - a path is the sequence of its "/"-separated segments:               *)
(*     "proj-main/sub/b.py" is <<"proj-main", "sub", "b.py">>;             *)
(*   - a Python dict is a sequence of <<key, value>> pairs with distinct   *)
(*     keys, in insertion order (dicts iterate in insertion order);        *)
(*   - None is the string "None".                                          *)
(***************************************************************************)
EXTENDS Integers, Sequences, FiniteSets, TLC

VARIABLES
    nz,            \* normalize_zip_entries: input mapping and its images
    cl,            \* make_checklist / overall_from_checklist: inputs and results
    pl,            \* one /review pipeline run: the request and what came of it
    fl,            \* filter_files_for_review: input mapping and its images
    dl,            \* detect_languages: input mapping and the tags returned
    rv,            \* one reviewer call: its arguments and what it returned
    REPORT_CACHE,  \* router.REPORT_CACHE: report id -> {created, result, meta}
    clock,         \* time.time()
    next_id,       \* number of report ids uuid.uuid4() has handed out
    last,          \* the request handled last and its outcome
    threads        \* per-thread position inside a request handler

cacheVars == <<REPORT_CACHE, clock, next_id, last, threads>>

unitVars == <<fl, dl, rv>>

vars == <<nz, cl, pl, unitVars, cacheVars>>

None == "None"

(***************************************************************************)
(* Python dict helpers                                                     *)
(***************************************************************************)
DictKeys(d) == {d[i][1] : i \in DOMAIN d}

DictHas(d, k) == \E i \in DOMAIN d : d[i][1] = k

DictGet(d, k) == d[CHOOSE i \in DOMAIN d : d[i][1] = k][2]

\* d[k] = v : an existing key keeps its position, a new key is appended
DictSet(d, k, v) ==
    IF DictHas(d, k)
    THEN [i \in DOMAIN d |-> IF d[i][1] = k THEN <<k, v>> ELSE d[i]]
    ELSE Append(d, <<k, v>>)

\* d.pop(k, None)
DictPop(d, k) == SelectSeq(d, LAMBDA e : e[1] # k)

\* list(d.keys())
DictKeyList(d) == [i \in DOMAIN d |-> d[i][1]]

(***************************************************************************)
(* Archive normalisation                                                   *)
(***************************************************************************)
Seg == {"p", "a", "b"}

MaxDepth == Cardinality(Seg)

MaxEntries == 2

Paths == UNION {[1..n -> Seg] : n \in 1..MaxDepth}

\* entry i of an archive carries bytes of its own
BytesOf(i) == <<"bytes", i>>

\* path[len(root) + 1:] when path.startswith(root + "/"), else path
StripRoot(path, root) ==
    IF Len(path) >= 2 /\ path[1] = root THEN Tail(path) ELSE path

\* router.py: strips the one folder found among the entries that have a folder
\* even when other entries sit at the top level
normalize_zip_entries(entries) ==
    IF entries = <<>>
    THEN entries
    ELSE LET top_levels == {entries[i][1][1] :
                               i \in {j \in DOMAIN entries : Len(entries[j][1]) >= 2}}
         IN  IF Cardinality(top_levels) = 1
             THEN LET root == CHOOSE r \in top_levels : TRUE
                      normalized[i \in 0..Len(entries)] ==
                          IF i = 0
                          THEN <<>>
                          ELSE DictSet(normalized[i - 1],
                                       StripRoot(entries[i][1], root),
                                       entries[i][2])
                  IN  normalized[Len(entries)]
             ELSE entries

\* utils/zip_reader.py: the loop leaves top set only if every key has a folder
\* and all folders are the same one
zip_reader_top(entries) ==
    LET scan[i \in 0..Len(entries)] ==
            \* <<top, stopped>> after the first i keys
            IF i = 0
            THEN <<None, FALSE>>
            ELSE LET prev == scan[i - 1]
                     k == entries[i][1]
                 IN  IF prev[2] THEN prev
                     ELSE IF Len(k) < 2 THEN <<None, TRUE>>
                     ELSE IF prev[1] = None THEN <<k[1], FALSE>>
                     ELSE IF prev[1] # k[1] THEN <<None, TRUE>>
                     ELSE prev
    IN  scan[Len(entries)][1]

zip_reader_normalize_zip_entries(entries) ==
    IF entries = <<>>
    THEN entries
    ELSE LET top == zip_reader_top(entries)
         IN  IF top = None
             THEN entries
             ELSE IF ~(\A i \in DOMAIN entries :
                          Len(entries[i][1]) >= 2 /\ entries[i][1][1] = top)
             THEN entries
             ELSE LET new_map[i \in 0..Len(entries)] ==
                          IF i = 0
                          THEN <<>>
                          ELSE DictSet(new_map[i - 1],
                                       StripRoot(entries[i][1], top),
                                       entries[i][2])
                  IN  new_map[Len(entries)]

\* every path -> bytes mapping with at most max entries
EntryMaps(max) ==
    UNION {{[i \in 1..n |-> <<ps[i], BytesOf(i)>>] :
               ps \in {q \in [1..n -> Paths] :
                          \A i, j \in 1..n : i # j => q[i] # q[j]}} :
           n \in 0..max}

NzIdle == [pc |-> "idle", E |-> <<>>, once |-> <<>>, twice |-> <<>>,
           zr_once |-> <<>>, zr_twice |-> <<>>]

NzInit == nz \in {[NzIdle EXCEPT !.pc = "in", !.E = E] : E \in EntryMaps(MaxEntries)}

\* entries = normalize_zip_entries(entries), as router.review applies it
Normalize ==
    /\ nz.pc = "in"
    /\ nz' = [nz EXCEPT !.pc = "once",
                        !.once = normalize_zip_entries(nz.E),
                        !.zr_once = zip_reader_normalize_zip_entries(nz.E)]
    /\ UNCHANGED <<cl, pl, unitVars, cacheVars>>

\* the same function applied to its own result
NormalizeAgain ==
    /\ nz.pc = "once"
    /\ nz' = [nz EXCEPT !.pc = "twice",
                        !.twice = normalize_zip_entries(nz.once),
                        !.zr_twice = zip_reader_normalize_zip_entries(nz.zr_once)]
    /\ UNCHANGED <<cl, pl, unitVars, cacheVars>>

(***************************************************************************)
(* Strings: the finite universe of strings the model uses, with the        *)
(* Python string operations the code applies to them given as tables       *)
(***************************************************************************)
\* s.upper()
Upper(s) ==
    CASE s = "mda-sitemap" -> "MDA-SITEMAP"
      [] s = "high" -> "HIGH"
      [] s = "info" -> "INFO"
      [] OTHER -> s

\* s.strip().lower()
StripLower(s) ==
    CASE s = "Security" -> "security"
      [] s = "Reliability" -> "reliability"
      [] s = "Availability" -> "availability"
      [] s = "Performance" -> "performance"
      [] s = "Maintainability" -> "maintainability"
      [] s = "Style" -> "style"
      [] s = " Code Style " -> "code style"
      [] s = "Governance" -> "governance"
      [] s = "Other" -> "other"
      [] s = "ALM & Governance" -> "alm & governance"
      [] s = "Model-driven UX" -> "model-driven ux"
      [] s = "Hardcoded Secret in settings" -> "hardcoded secret in settings"
      [] s = "Unused import" -> "unused import"
      [] s = "Delegation warning" -> "delegation warning"
      [] s = "API token committed" -> "api token committed"
      [] s = "No detail" -> "no detail"
      [] s = "Hardcoded secret" -> "hardcoded secret"
      [] s = "Request without timeout" -> "request without timeout"
      [] s = "Swallowed error" -> "swallowed error"
      [] s = "Unused variable" -> "unused variable"
      [] s = "LLM finding" -> "llm finding"
      [] s = "Potential secret-like key/value in flow JSON" ->
            "potential secret-like key/value in flow json"
      [] s = "Flow definition contains keys/fields that resemble secrets." ->
            "flow definition contains keys/fields that resemble secrets."
      [] OTHER -> s

\* s.startswith(prefix)
StartsWith(s, prefix) ==
    <<s, prefix>> \in {
        <<"PP-CONN-REFS", "PP-">>, <<"PP-SOLUTION-METADATA", "PP-">>,
        <<"PP-FLOW-SECRET", "PP-">>, <<"MSAPP-PARSE", "MSAPP-">>,
        <<"MSAPP-NO-FX", "MSAPP-">>, <<"MDA-SITEMAP", "MDA-">>,
        <<"MDA-NOT-FOUND", "MDA-">>}

\* needle in s
Contains(s, needle) ==
    <<s, needle>> \in {
        <<"hardcoded secret in settings", "secret">>,
        <<"delegation warning", "delegation">>,
        <<"api token committed", "token">>,
        <<"potential secret-like key/value in flow json", "secret">>,
        <<"flow definition contains keys/fields that resemble secrets.", "secret">>,
        <<"code style", "style">>,
        <<"style", "style">>}

(***************************************************************************)
(* reviewers/base.py                                                       *)
(***************************************************************************)
Issue(language, file_path, line_start, line_end, severity, category, title, detail, remediation, confidence, rule_id) ==
    [language |-> language, file_path |-> file_path, line_start |-> line_start,
     line_end |-> line_end, severity |-> severity, category |-> category,
     title |-> title, detail |-> detail, remediation |-> remediation,
     confidence |-> confidence, rule_id |-> rule_id]

(***************************************************************************)
(* Checklist helpers (router.py)                                           *)
(***************************************************************************)
_normalize_severity(sev) ==
    LET s == Upper(IF sev = None THEN "" ELSE sev)
    IN  IF s \in {"LOW", "MEDIUM", "HIGH", "CRITICAL"} THEN s ELSE "MEDIUM"

InSeq(x, seq) == \E i \in DOMAIN seq : seq[i] = x

\* the rule-id prefixes ignored: every issue bucketed from category and text
_bucket_for_issue_by_category(issue, languages) ==
    LET is_pp == InSeq("powerplatform", languages)
        rid == Upper(IF issue.rule_id = None THEN "" ELSE issue.rule_id)
        cat == StripLower(IF issue.category = None THEN "" ELSE issue.category)
        title == StripLower(IF issue.title = None THEN "" ELSE issue.title)
        detail == StripLower(IF issue.detail = None THEN "" ELSE issue.detail)
    IN  IF is_pp
        THEN IF cat = "security" \/ Contains(title, "secret")
                     \/ Contains(detail, "secret") \/ Contains(detail, "token")
                 THEN "Security"
             ELSE IF cat \in {"reliability", "availability"}
                 THEN "Reliability"
             ELSE IF cat = "performance" \/ Contains(title, "delegation")
                     \/ Contains(detail, "delegation")
                 THEN "Performance"
             ELSE IF cat \in {"maintainability", "governance", "alm"}
                 THEN "Maintainability"
             ELSE "Maintainability"
        ELSE IF cat = "security" THEN "Security"
             ELSE IF cat \in {"reliability", "availability"} THEN "Reliability"
             ELSE IF cat = "performance" THEN "Performance"
             ELSE IF cat = "maintainability" THEN "Maintainability"
             ELSE IF Contains(cat, "style") \/ Contains(cat, "format")
                     \/ Contains(cat, "lint")
                 THEN "Style"
             ELSE "Maintainability"

_bucket_for_issue(issue, languages) ==
    LET is_pp == InSeq("powerplatform", languages)
        rid == Upper(IF issue.rule_id = None THEN "" ELSE issue.rule_id)
        cat == StripLower(IF issue.category = None THEN "" ELSE issue.category)
        title == StripLower(IF issue.title = None THEN "" ELSE issue.title)
        detail == StripLower(IF issue.detail = None THEN "" ELSE issue.detail)
    IN  IF is_pp
        THEN IF StartsWith(rid, "PP-") \/ StartsWith(rid, "MSAPP-")
                 THEN "ALM & Governance"
             ELSE IF StartsWith(rid, "MDA-")
                 THEN "Model-driven UX"
             ELSE IF cat = "security" \/ Contains(title, "secret")
                     \/ Contains(detail, "secret") \/ Contains(detail, "token")
                 THEN "Security"
             ELSE IF cat \in {"reliability", "availability"}
                 THEN "Reliability"
             ELSE IF cat = "performance" \/ Contains(title, "delegation")
                     \/ Contains(detail, "delegation")
                 THEN "Performance"
             ELSE IF cat \in {"maintainability", "governance", "alm"}
                 THEN "Maintainability"
             ELSE "Maintainability"
        ELSE IF cat = "security" THEN "Security"
             ELSE IF cat \in {"reliability", "availability"} THEN "Reliability"
             ELSE IF cat = "performance" THEN "Performance"
             ELSE IF cat = "maintainability" THEN "Maintainability"
             ELSE IF Contains(cat, "style") \/ Contains(cat, "format")
                     \/ Contains(cat, "lint")
                 THEN "Style"
             ELSE "Maintainability"

\* the (bucket, text) rows of the two checklists
PowerPlatformDefs == <<
    <<"ALM & Governance", "Uses env vars + connection references; no hardcoded environment values">>,
    <<"Security", "No embedded secrets/tokens; connectors and references are used correctly">>,
    <<"Reliability", "Flows use Scopes/runAfter patterns; app formulas handle errors (IfError)">>,
    <<"Performance", "No obvious delegation/performance smells (ForAll/LookUp patterns)">>,
    <<"Maintainability", "Clear naming; solution metadata present; minimal bloat">>,
    <<"Model-driven UX", "Sitemap/navigation and key metadata present">> >>

\* mutant: the generic checklist without its Style row
GenericDefsWithoutStyle == <<
    <<"Security", "No hard-coded secrets or critical vulnerabilities">>,
    <<"Reliability", "Proper error handling and stability">>,
    <<"Maintainability", "Readable, modular, maintainable solution">>,
    <<"Performance", "No obvious performance bottlenecks">> >>

GenericDefs == <<
    <<"Security", "No hard-coded secrets or critical vulnerabilities">>,
    <<"Reliability", "Proper error handling and stability">>,
    <<"Maintainability", "Readable, modular, maintainable solution">>,
    <<"Performance", "No obvious performance bottlenecks">>,
    <<"Style", "Consistent standards and conventions">> >>

\* bucket_counts.get(bucket, 0) after the loop over the issues
bucket_counts(issues, languages, bucket) ==
    Cardinality({i \in DOMAIN issues :
                    _bucket_for_issue(issues[i], languages) = bucket})

\* bucket_high_crit.get(bucket, False) after the loop over the issues
bucket_high_crit(issues, languages, bucket) ==
    \E i \in DOMAIN issues :
        /\ _bucket_for_issue(issues[i], languages) = bucket
        /\ _normalize_severity(issues[i].severity) \in {"HIGH", "CRITICAL"}

\* mutant: the Security row fails on the HIGH/CRITICAL flag alone
row_fail_severity_only(issues, languages, bucket) ==
    LET c == bucket_counts(issues, languages, bucket)
    IN  IF bucket = "Security"
        THEN bucket_high_crit(issues, languages, bucket)
        ELSE c > 0

\* the row's verdict: Security also looks at the HIGH/CRITICAL flag
row_fail(issues, languages, bucket) ==
    LET c == bucket_counts(issues, languages, bucket)
    IN  IF bucket = "Security"
        THEN c > 0 \/ bucket_high_crit(issues, languages, bucket)
        ELSE c > 0

make_checklist(issues, languages) ==
    LET is_pp == InSeq("powerplatform", languages)
        defs == IF is_pp THEN PowerPlatformDefs ELSE GenericDefs
    IN  [r \in DOMAIN defs |->
            LET bucket == defs[r][1]
                c == bucket_counts(issues, languages, bucket)
            IN  [category |-> bucket,
                 item |-> defs[r][2],
                 result |-> IF row_fail(issues, languages, bucket)
                            THEN "FAIL" ELSE "PASS",
                 notes |-> IF c # 0 THEN <<c, "issue(s) found">> ELSE ""]]

\* mutant: any() in place of all()
overall_from_checklist_any(checklist) ==
    IF \E r \in DOMAIN checklist : checklist[r].result = "PASS"
    THEN "PASS" ELSE "FAIL"

overall_from_checklist(checklist) ==
    IF \A r \in DOMAIN checklist : checklist[r].result = "PASS"
    THEN "PASS" ELSE "FAIL"

(***************************************************************************)
(* Checklist scoring on its own: inputs drawn at Init, then                *)
(* make_checklist and overall_from_checklist applied as router.review does *)
(***************************************************************************)
MaxIssues == 2

BaseIssue ==
    Issue("python", <<"app.py">>, 1, 1, "MEDIUM", "Maintainability",
          "Unused import", "No detail", "Remove it", "High", None)

IssueSamples ==
    {[BaseIssue EXCEPT !.rule_id = r, !.category = c] :
        r \in {None, "PP-CONN-REFS", "mda-sitemap", "MSAPP-PARSE"},
        c \in {"Security", "Other"}}
    \cup {[BaseIssue EXCEPT !.category = c] :
        c \in {"Reliability", "Availability", "Performance", " Code Style ",
               "Governance", "Style"}}
    \cup {[BaseIssue EXCEPT !.category = c, !.severity = s] :
        c \in {"Security", "Other"}, s \in {"LOW", "high", "CRITICAL", "info"}}
    \cup {[BaseIssue EXCEPT !.title = t, !.detail = d] :
        t \in {"Hardcoded Secret in settings", "Delegation warning"},
        d \in {"No detail", "API token committed"}}

LanguageLists ==
    {<<>>, <<"python">>, <<"powerplatform">>, <<"powerplatform", "python">>}

ClIdle == [pc |-> "idle", issues |-> <<>>, languages |-> <<>>, buckets |-> <<>>,
           rows |-> <<>>, overall |-> "", prev_overall |-> "", flipped |-> 0]

ClInit ==
    cl \in {[ClIdle EXCEPT !.pc = "in", !.issues = is, !.languages = ls] :
               is \in UNION {[1..n -> IssueSamples] : n \in 0..MaxIssues},
               ls \in LanguageLists}

\* checklist = make_checklist(issues, languages)
\* overall = overall_from_checklist(checklist)
MakeChecklist ==
    /\ cl.pc = "in"
    /\ LET checklist == make_checklist(cl.issues, cl.languages)
       IN  cl' = [cl EXCEPT !.pc = "made", !.rows = checklist,
                            !.buckets = [i \in DOMAIN cl.issues |->
                                            _bucket_for_issue(cl.issues[i], cl.languages)],
                            !.overall = overall_from_checklist(checklist)]
    /\ UNCHANGED <<nz, pl, unitVars, cacheVars>>

\* one row of the checklist is changed to FAIL and the verdict taken again
FlipRow ==
    /\ cl.pc = "made"
    /\ \E r \in DOMAIN cl.rows :
          LET checklist == [cl.rows EXCEPT ![r].result = "FAIL"]
          IN  cl' = [cl EXCEPT !.pc = "flipped", !.rows = checklist,
                               !.flipped = r, !.prev_overall = cl.overall,
                               !.overall = overall_from_checklist(checklist)]
    /\ UNCHANGED <<nz, pl, unitVars, cacheVars>>

(***************************************************************************)
(* Paths and file contents of the sample archives, with the string         *)
(* operations the pipeline applies to them given as tables                 *)
(***************************************************************************)
\* s.lower() of a path segment
Lower(s) ==
    CASE s = "CanvasApps" -> "canvasapps"
      [] s = "Workflows" -> "workflows"
      [] s = "Node_Modules" -> "node_modules"
      [] s = "Security" -> "security"
      [] s = "Performance" -> "performance"
      [] s = "Reliability" -> "reliability"
      [] s = "Style" -> "style"
      [] s = "Maintainability" -> "maintainability"
      [] s = "Hardcoded secret" -> "hardcoded secret"
      [] s = "Request without timeout" -> "request without timeout"
      [] s = "Swallowed error" -> "swallowed error"
      [] s = "Unused variable" -> "unused variable"
      [] s = "LLM finding" -> "llm finding"
      [] OTHER -> s

LowerPath(path) == [i \in DOMAIN path |-> Lower(path[i])]

Last(seq) == seq[Len(seq)]

\* os.path.splitext(name)[1] of a lower-cased file name
SplitExt(name) ==
    CASE name = "app.py" -> ".py"
      [] name = "x.js" -> ".js"
      [] name = "solution.xml" -> ".xml"
      [] name = "appmodule.xml" -> ".xml"
      [] name = "flow.json" -> ".json"
      [] name = "package.json" -> ".json"
      [] name = "logo.png" -> ".png"
      [] name = "app.msapp" -> ".msapp"
      [] name = "notes." -> "."
      [] name = "ci.yml" -> ".yml"
      [] OTHER -> ""

\* name[name.rfind("."):] of a lower-cased file name, None without a dot
DotSuffix(name) ==
    CASE name = ".github" -> ".github"
      [] name = ".gitignore" -> ".gitignore"
      [] SplitExt(name) # "" -> SplitExt(name)
      [] OTHER -> None

\* name.endswith(suffix) of a lower-cased file name
EndsWith(name, suffix) ==
    \/ name = suffix
    \/ SplitExt(name) = suffix
    \/ DotSuffix(name) = suffix

\* "/" + folder + "/" in path: a folder that is neither first nor last segment
HasInnerFolder(path, folder) ==
    \E i \in DOMAIN path : 1 < i /\ i < Len(path) /\ path[i] = folder

\* s.lstrip("./") of a first path segment: its leading dots go
RECURSIVE LStripDotSlash(_)
LStripDotSlash(s) ==
    IF s = "" THEN s
    ELSE IF SubSeq(s, 1, 1) \in {".", "/"} THEN LStripDotSlash(SubSeq(s, 2, Len(s)))
    ELSE s

\* file contents
SOL_NO_PUBLISHER == "<ImportExportXml><SolutionManifest/></ImportExportXml>"

SOL_PUBLISHER == "<ImportExportXml><Publisher>contoso</Publisher></ImportExportXml>"

APPMODULE_XML == "<AppModule><Name>crm</Name><SiteMap/></AppModule>"

PY_SOURCE == "import os; password = 'hunter2'"

JS_SOURCE == "console.log(1)"

FLOW_JSON == "{\"actions\": {}}"

PKG_JSON == "{\"name\": \"x\"}"

BLANK == "   "

BINARY_TEXT == "PK<binary>"

\* the characters str.strip() removes, among those the contents use
WHITESPACE == {" ", "\t", "\n", "\r", "\f"}

RECURSIVE LStrip(_)
LStrip(text) ==
    IF text = "" THEN text
    ELSE IF SubSeq(text, 1, 1) \in WHITESPACE THEN LStrip(SubSeq(text, 2, Len(text)))
    ELSE text

RECURSIVE RStrip(_)
RStrip(text) ==
    IF text = "" THEN text
    ELSE IF SubSeq(text, Len(text), Len(text)) \in WHITESPACE
         THEN RStrip(SubSeq(text, 1, Len(text) - 1))
    ELSE text

\* text.strip()
Strip(text) == RStrip(LStrip(text))

\* needle in text, for the contents above
TextContains(text, needle) ==
    <<text, needle>> \in {
        <<SOL_PUBLISHER, "<Publisher>">>,
        <<APPMODULE_XML, "appmodule">>, <<APPMODULE_XML, "sitemap">>,
        <<APPMODULE_XML, "<name>">>,
        <<PY_SOURCE, "password">>}

\* len(text) > limit
LongerThan(text, limit) == Len(text) > limit

\* bytes of an archive entry: data.decode("utf-8", errors="ignore"), whether
\* len(data) exceeds as_text_files' max_bytes, and what a .msapp reader finds
FileData(text) ==
    [text |-> text, oversize |-> FALSE, pk |-> FALSE, zip |-> FALSE,
     artifacts |-> <<>>, hits |-> <<>>]

\* bytes of a .msapp entry: whether they start with the PK magic, whether
\* zipfile can open them, and the artifacts and formula hits read from them
MsappData(pk, zip, artifacts, hits) ==
    [text |-> BINARY_TEXT, oversize |-> FALSE, pk |-> pk, zip |-> zip,
     artifacts |-> artifacts, hits |-> hits]


(***************************************************************************)
(* utils/zip_reader.py                                                     *)
(***************************************************************************)
\* an archive byte string: its length class, whether zipfile can open it,
\* and the path -> bytes mapping of its readable file entries
Blob(len, zip, entries) == [len |-> len, zip |-> zip, entries |-> entries]

\* read_zip_in_memory: zipfile.ZipFile raises BadZipFile on bytes that are no
\* ZIP archive; the function does not catch it
read_zip_in_memory(zip_bytes) ==
    IF zip_bytes.len = "zero"
    THEN [raised |-> None, entries |-> <<>>]
    ELSE IF ~zip_bytes.zip
    THEN [raised |-> "BadZipFile", entries |-> <<>>]
    ELSE [raised |-> None, entries |-> zip_bytes.entries]

binary_exts ==
    {".png", ".jpg", ".jpeg", ".gif", ".bmp", ".webp", ".ico",
     ".exe", ".dll", ".so", ".dylib",
     ".zip", ".7z", ".rar", ".tar", ".gz",
     ".pdf", ".docx", ".pptx", ".xlsx",
     ".pyc", ".class"}

as_text_files(entries) ==
    LET out[i \in 0..Len(entries)] ==
            IF i = 0
            THEN <<>>
            ELSE LET p == entries[i][1]
                     data == entries[i][2]
                     ext == SplitExt(Lower(Last(p)))
                 IN  IF ext \in binary_exts THEN out[i - 1]
                     ELSE IF data.oversize THEN out[i - 1]
                     ELSE DictSet(out[i - 1], p, data.text)
    IN  out[Len(entries)]

\* {e.lower() for e in extensions}: iterating over a str yields its characters
LowerElements(extensions) ==
    IF extensions = ".msapp" THEN {".", "m", "s", "a", "p"} ELSE extensions

extract_binary(entries, extensions) ==
    LET exts == LowerElements(extensions)
        out[i \in 0..Len(entries)] ==
            IF i = 0
            THEN <<>>
            ELSE LET p == entries[i][1]
                     ext == SplitExt(Lower(Last(p)))
                 IN  IF exts # {} /\ ext \notin exts THEN out[i - 1]
                     ELSE DictSet(out[i - 1], p, entries[i][2])
    IN  out[Len(entries)]

(***************************************************************************)
(* utils/language_detect.py                                                *)
(***************************************************************************)
EXT_TO_LANG ==
    <<<<".py", "python">>, <<".js", "javascript">>, <<".jsx", "javascript">>,
      <<".ts", "typescript">>, <<".tsx", "typescript">>, <<".java", "java">>,
      <<".cs", "csharp">>, <<".go", "go">>, <<".rb", "ruby">>, <<".php", "php">>,
      <<".cpp", "cpp">>, <<".c", "c">>, <<".h", "c/cpp">>, <<".kt", "kotlin">>,
      <<".swift", "swift">>, <<".rs", "rust">>, <<".json", "json">>,
      <<".xml", "xml">> >>

MANIFEST_HINTS ==
    <<<<"pyproject.toml", "python">>, <<"requirements.txt", "python">>,
      <<"setup.py", "python">>, <<"package.json", "javascript/typescript">>,
      <<"pom.xml", "java">>, <<"build.gradle", "java">>, <<".csproj", "csharp">>,
      <<"go.mod", "go">>, <<"solution.xml", "powerplatform">>,
      <<"customizations.xml", "powerplatform">>,
      <<"connections.json", "powerplatform">>,
      <<"environmentvariabledefinitions", "powerplatform">>,
      <<"environmentvariablevalues", "powerplatform">>,
      <<"connectionreferences", "powerplatform">>,
      <<".msapp", "powerplatform">> >>

\* counter[key] += n on a Counter kept in insertion order
CounterAdd(counter, key, n) ==
    IF DictHas(counter, key)
    THEN DictSet(counter, key, DictGet(counter, key) + n)
    ELSE Append(counter, <<key, n>>)

\* the increments one path contributes, in the order the loop body makes them
PathScores(path) ==
    LET lower == LowerPath(path)
        name == Last(lower)
        strong ==
            (IF EndsWith(name, "solution.xml") \/ EndsWith(name, "customizations.xml")
             THEN <<<<"powerplatform", 8>>>> ELSE <<>>)
            \o (IF HasInnerFolder(lower, "workflows") /\ EndsWith(name, ".json")
                THEN <<<<"powerplatform", 4>>>> ELSE <<>>)
            \o (IF HasInnerFolder(lower, "canvasapps")
                   /\ (EndsWith(name, ".msapp") \/ EndsWith(name, ".json"))
                THEN <<<<"powerplatform", 4>>>> ELSE <<>>)
            \o (IF HasInnerFolder(lower, "connectionreferences") /\ EndsWith(name, ".xml")
                THEN <<<<"powerplatform", 4>>>> ELSE <<>>)
            \o (IF HasInnerFolder(lower, "environmentvariabledefinitions")
                   /\ EndsWith(name, ".xml")
                THEN <<<<"powerplatform", 4>>>> ELSE <<>>)
            \o (IF HasInnerFolder(lower, "environmentvariablevalues")
                   /\ EndsWith(name, ".xml")
                THEN <<<<"powerplatform", 4>>>> ELSE <<>>)
        manifest[h \in 0..Len(MANIFEST_HINTS)] ==
            IF h = 0
            THEN <<>>
            ELSE LET hint == MANIFEST_HINTS[h][1]
                 IN  IF (hint \in {".csproj", ".msapp"} /\ EndsWith(name, hint))
                        \/ (hint \notin {".csproj", ".msapp"} /\ name = hint)
                     THEN Append(manifest[h - 1], <<MANIFEST_HINTS[h][2], 4>>)
                     ELSE manifest[h - 1]
        ext == DotSuffix(name)
        extension ==
            IF ext # None /\ DictHas(EXT_TO_LANG, ext)
            THEN <<<<DictGet(EXT_TO_LANG, ext), 1>>>> ELSE <<>>
    IN  strong \o manifest[Len(MANIFEST_HINTS)] \o extension

\* ties resolved towards the key inserted last
most_common_ties_reversed(counter) ==
    LET Before(a, b) == counter[a][2] > counter[b][2]
                        \/ (counter[a][2] = counter[b][2] /\ a > b)
        Rank(a) == Cardinality({b \in DOMAIN counter : Before(b, a)}) + 1
    IN  [r \in DOMAIN counter |->
            counter[CHOOSE a \in DOMAIN counter : Rank(a) = r]]

\* Counter.most_common(): by descending count, ties in insertion order
most_common(counter) ==
    LET Before(a, b) == counter[a][2] > counter[b][2]
                        \/ (counter[a][2] = counter[b][2] /\ a < b)
        Rank(a) == Cardinality({b \in DOMAIN counter : Before(b, a)}) + 1
    IN  [r \in DOMAIN counter |->
            counter[CHOOSE a \in DOMAIN counter : Rank(a) = r]]

detect_languages(files) ==
    LET perFile[i \in 0..Len(files)] ==
            IF i = 0 THEN <<>> ELSE perFile[i - 1] \o PathScores(files[i][1])
        incs == perFile[Len(files)]
        counter[i \in 0..Len(incs)] ==
            IF i = 0 THEN <<>>
            ELSE CounterAdd(counter[i - 1], incs[i][1], incs[i][2])
        counted == counter[Len(incs)]
        expanded[i \in 0..Len(counted)] ==
            IF i = 0 THEN <<>>
            ELSE IF counted[i][1] = "javascript/typescript"
                 THEN CounterAdd(CounterAdd(expanded[i - 1], "javascript", counted[i][2]),
                                 "typescript", counted[i][2])
                 ELSE CounterAdd(expanded[i - 1], counted[i][1], counted[i][2])
        ranked == SelectSeq(most_common(expanded[Len(counted)]), LAMBDA e : e[2] > 0)
    IN  [i \in DOMAIN ranked |-> ranked[i][1]]

(***************************************************************************)
(* utils/content_filter.py                                                 *)
(***************************************************************************)
EXCLUDED_DIRS ==
    {".git", ".github", ".idea", ".vscode",
     "__pycache__", ".pytest_cache", ".mypy_cache", ".ruff_cache",
     ".venv", "venv", "env",
     "node_modules", "dist", "build", ".next", "coverage",
     ".terraform", ".gradle", ".mvn"}

EXCLUDED_EXTS ==
    {".png", ".jpg", ".jpeg", ".gif", ".bmp", ".webp", ".ico",
     ".pdf", ".docx", ".pptx", ".xlsx",
     ".exe", ".dll", ".so", ".dylib",
     ".zip", ".7z", ".rar", ".tar", ".gz",
     ".pyc", ".pyo", ".class",
     ".lock"}

INCLUDED_TEXT_EXTS ==
    {".py", ".js", ".jsx", ".ts", ".tsx", ".java", ".cs", ".go", ".rb", ".php",
     ".cpp", ".c", ".h", ".sql", ".ps1", ".sh", ".bat",
     ".html", ".htm", ".css",
     ".json", ".yml", ".yaml", ".toml", ".ini", ".cfg", ".xml", ".md", ".txt",
     ".msapp"}

MAX_FILE_CHARS == 80000

TRUNCATED_MARK == "\n\n[TRUNCATED: file too large]"

\* (p or "").replace("\\", "/").lstrip("./"): leading dots and slashes go,
\* which may consume whole leading segments
RECURSIVE _norm_path(_)
_norm_path(p) ==
    IF p = <<>> THEN p
    ELSE LET first == LStripDotSlash(p[1])
         IN  IF first = "" THEN _norm_path(Tail(p))
             ELSE <<first>> \o Tail(p)

_is_in_excluded_dir(path_norm) ==
    \E i \in DOMAIN path_norm : path_norm[i] \in EXCLUDED_DIRS

\* the marker appended to an over-long text that is not cut to the budget
filter_files_for_review_uncut(files) ==
    LET filtered[i \in 0..Len(files)] ==
            IF i = 0
            THEN <<>>
            ELSE LET p == _norm_path(files[i][1])
                     ext == IF p = <<>> THEN "" ELSE SplitExt(Lower(Last(p)))
                     basename == IF p = <<>> THEN "" ELSE Lower(Last(p))
                     text == Strip(files[i][2])
                 IN  IF p = <<>> THEN filtered[i - 1]
                     ELSE IF _is_in_excluded_dir(p) THEN filtered[i - 1]
                     ELSE IF ext \in EXCLUDED_EXTS THEN filtered[i - 1]
                     ELSE IF ext # "" /\ ext \notin INCLUDED_TEXT_EXTS THEN filtered[i - 1]
                     ELSE IF ext = "" /\ basename \notin {"dockerfile", "makefile",
                                                          "requirements", "requirements.txt"}
                         THEN filtered[i - 1]
                     ELSE IF text = "" THEN filtered[i - 1]
                     ELSE DictSet(filtered[i - 1], p,
                                  IF LongerThan(text, MAX_FILE_CHARS)
                                  THEN text \o TRUNCATED_MARK
                                  ELSE text)
    IN  filtered[Len(files)]

filter_files_for_review(files) ==
    LET filtered[i \in 0..Len(files)] ==
            IF i = 0
            THEN <<>>
            ELSE LET p == _norm_path(files[i][1])
                     ext == IF p = <<>> THEN "" ELSE SplitExt(Lower(Last(p)))
                     basename == IF p = <<>> THEN "" ELSE Lower(Last(p))
                     text == Strip(files[i][2])
                 IN  IF p = <<>> THEN filtered[i - 1]
                     ELSE IF _is_in_excluded_dir(p) THEN filtered[i - 1]
                     ELSE IF ext \in EXCLUDED_EXTS THEN filtered[i - 1]
                     ELSE IF ext # "" /\ ext \notin INCLUDED_TEXT_EXTS THEN filtered[i - 1]
                     ELSE IF ext = "" /\ basename \notin {"dockerfile", "makefile",
                                                          "requirements", "requirements.txt"}
                         THEN filtered[i - 1]
                     ELSE IF text = "" THEN filtered[i - 1]
                     ELSE DictSet(filtered[i - 1], p,
                                  IF LongerThan(text, MAX_FILE_CHARS)
                                  THEN SubSeq(text, 1, MAX_FILE_CHARS) \o TRUNCATED_MARK
                                  ELSE text)
    IN  filtered[Len(files)]


(***************************************************************************)
(* reviewers/power_platform.py, reviewers/model_driven_app.py              *)
(***************************************************************************)
\* _find_line: the sample contents are single lines
_find_line(text, needle) == 1

\* the first p of files with p.lower().endswith("solution.xml"), else None
sol_index(files) ==
    LET hits == {i \in DOMAIN files :
                    EndsWith(Last(LowerPath(files[i][1])), "solution.xml")}
    IN  IF hits = {} THEN 0 ELSE CHOOSE i \in hits : \A j \in hits : i <= j

IsWorkflowJson(p) ==
    EndsWith(Last(LowerPath(p)), ".json") /\ HasInnerFolder(LowerPath(p), "workflows")

IsInFolderXml(p, folder) ==
    HasInnerFolder(LowerPath(p), folder) /\ EndsWith(Last(LowerPath(p)), ".xml")

\* the four checks made on one workflow JSON file
FlowIssues(p, content) ==
    (IF TextContains(content, "http://") \/ TextContains(content, "https://")
     THEN <<Issue("powerplatform", p, _find_line(content, "http"),
                  _find_line(content, "http"), "MEDIUM", "Maintainability",
                  "Hardcoded URL found in flow definition",
                  "Flow JSON appears to contain an absolute URL.",
                  "Use environment variables or configuration values.",
                  "Medium", "PP-FLOW-HARDCODED-URL")>>
     ELSE <<>>)
    \o (IF \E k \in {"apikey", "api_key", "secret", "password", "token",
                     "clientsecret", "client_secret"} : TextContains(content, k)
        THEN <<Issue("powerplatform", p, _find_line(content, "secret"),
                     _find_line(content, "secret"), "HIGH", "Security",
                     "Potential secret-like key/value in flow JSON",
                     "Flow definition contains keys/fields that resemble secrets.",
                     "Move secrets to Azure Key Vault or secure inputs.",
                     "Medium", "PP-FLOW-SECRET")>>
        ELSE <<>>)
    \o (IF ~TextContains(content, "retryPolicy") /\ ~TextContains(content, "retry")
        THEN <<Issue("powerplatform", p, 1, 1, "LOW", "Reliability",
                     "No explicit retry policy detected",
                     "Flow actions may not be configured with retry policy.",
                     "Set appropriate retry policy where supported.",
                     "Low", "PP-FLOW-RETRY")>>
        ELSE <<>>)
    \o (IF ~TextContains(content, "runAfter")
        THEN <<Issue("powerplatform", p, 1, 1, "LOW", "Reliability",
                     "Limited error-handling structure detected (runAfter missing)",
                     "Flow definition does not include 'runAfter' patterns.",
                     "Use Scope actions for Try/Catch/Finally.",
                     "Low", "PP-FLOW-RUNAFTER")>>
        ELSE <<>>)

PowerPlatformReviewer_review(files, language) ==
    LET s == sol_index(files)
        sol_xml == IF s = 0 THEN None ELSE files[s][2]
        sol_path == IF s = 0 THEN None ELSE files[s][1]
        solution ==
            IF s # 0 /\ sol_xml # "" /\ sol_path # <<>>
               /\ ~TextContains(sol_xml, "<Publisher>")
               /\ ~TextContains(sol_xml, "<publisher>")
            THEN <<Issue("powerplatform", sol_path, _find_line(sol_xml, "<Solution"),
                         _find_line(sol_xml, "<Solution"), "MEDIUM", "Maintainability",
                         "Solution metadata incomplete (Publisher not found)",
                         "solution.xml does not appear to contain Publisher metadata.",
                         "Ensure Solution has correct Publisher.",
                         "Medium", "PP-SOLUTION-METADATA")>>
            ELSE <<>>
        workflow_json_paths == DictKeyList(SelectSeq(files, LAMBDA f : IsWorkflowJson(f[1])))
        flows[i \in 0..Len(workflow_json_paths)] ==
            IF i = 0 THEN <<>>
            ELSE flows[i - 1] \o FlowIssues(workflow_json_paths[i],
                                            DictGet(files, workflow_json_paths[i]))
        IsEnvDef(p) == IsInFolderXml(p, "environmentvariabledefinitions")
        IsEnvVal(p) == IsInFolderXml(p, "environmentvariablevalues")
        IsConnRef(p) == IsInFolderXml(p, "connectionreferences")
        env_defs == DictKeyList(SelectSeq(files, LAMBDA f : IsEnvDef(f[1])))
        env_vals == DictKeyList(SelectSeq(files, LAMBDA f : IsEnvVal(f[1])))
        conn_refs == DictKeyList(SelectSeq(files, LAMBDA f : IsConnRef(f[1])))
        env ==
            IF env_defs # <<>> /\ env_vals = <<>>
            THEN <<Issue("powerplatform", env_defs[1], 1, 1, "MEDIUM", "Maintainability",
                         "Environment variable definitions present but values missing",
                         "Solution includes Environment Variable Definitions but no values.",
                         "Provide sensible default values.",
                         "Medium", "PP-ENV-VARS")>>
            ELSE <<>>
        conn ==
            IF conn_refs = <<>>
            THEN <<Issue("powerplatform",
                         IF sol_path = None THEN <<"solution.xml">> ELSE sol_path,
                         1, 1, "LOW", "Maintainability",
                         "Connection References not detected",
                         "Connection References help make solutions environment-agnostic.",
                         "Use Connection References for flows and canvas apps.",
                         "Low", "PP-CONN-REFS")>>
            ELSE <<>>
    IN  [raised |-> None,
         issues |-> solution \o flows[Len(workflow_json_paths)] \o env \o conn]

\* "appmodule" in p.lower(), which also covers "appmodules"
PathMentionsAppModule(p) ==
    \E i \in DOMAIN p : Lower(p[i]) \in {"appmodule.xml", "appmodules"}

IsMdaPath(p) ==
    /\ EndsWith(Last(LowerPath(p)), ".xml")
    /\ (HasInnerFolder(LowerPath(p), "modeldrivenapps") \/ PathMentionsAppModule(p))

\* ET.fromstring(xml_text) succeeds
ParsesAsXml(text) == text \in {SOL_NO_PUBLISHER, SOL_PUBLISHER, APPMODULE_XML}

\* the checks made on one model-driven app file
MdaIssues(path, xml_text) ==
    IF ~ParsesAsXml(xml_text)
    THEN <<Issue("powerplatform", path, 1, 1, "MEDIUM", "Reliability",
                 "Model-Driven App XML could not be parsed",
                 "The XML file could not be parsed.",
                 "Re-export the solution.", "High", "MDA-XML-PARSE")>>
    ELSE (IF ~(\E k \in {"<name>", "displayname", "localizedname", "appmodule"} :
                  TextContains(xml_text, k))
          THEN <<Issue("powerplatform", path, _find_line(xml_text, "<appmodule"),
                       _find_line(xml_text, "<appmodule"), "LOW", "Maintainability",
                       "Model-Driven App metadata appears minimal (name/display name not obvious)",
                       "Could not reliably detect display name/label metadata.",
                       "Ensure the app has clear display name.", "Low", "MDA-METADATA")>>
          ELSE <<>>)
         \o (IF ~(\E k \in {"sitemap", "site map", "sitemapproperties"} :
                     TextContains(xml_text, k))
             THEN <<Issue("powerplatform", path, 1, 1, "MEDIUM", "Maintainability",
                          "No Sitemap reference detected for Model-Driven App",
                          "A sitemap defines navigation for model-driven apps.",
                          "Add/verify a Sitemap.", "Medium", "MDA-SITEMAP")>>
             ELSE <<>>)
         \o (IF TextContains(xml_text, "http://") \/ TextContains(xml_text, "https://")
             THEN <<Issue("powerplatform", path, _find_line(xml_text, "http"),
                          _find_line(xml_text, "http"), "MEDIUM", "Maintainability",
                          "Hardcoded URL detected in Model-Driven App XML",
                          "Found an absolute URL in the app definition.",
                          "Use environment variables or configuration records.",
                          "Medium", "MDA-HARDCODED-URL")>>
             ELSE <<>>)
         \o (IF LongerThan(xml_text, 500000)
             THEN <<Issue("powerplatform", path, 1, 1, "LOW", "Performance",
                          "Large Model-Driven App definition detected",
                          "App definition XML is very large.",
                          "Review included components.", "Low", "MDA-LARGE")>>
             ELSE <<>>)

ModelDrivenAppReviewer_review(files, language) ==
    LET found == DictKeyList(SelectSeq(files, LAMBDA f : IsMdaPath(f[1])))
        IsCustomizations(p) == EndsWith(Last(LowerPath(p)), "customizations.xml")
        customizations == DictKeyList(SelectSeq(files, LAMBDA f : IsCustomizations(f[1])))
        mda_paths ==
            IF found = <<>> /\ customizations # <<>>
               /\ TextContains(DictGet(files, customizations[1]), "appmodule")
            THEN <<customizations[1]>>
            ELSE found
        each[i \in 0..Len(mda_paths)] ==
            IF i = 0 THEN <<>>
            ELSE each[i - 1] \o MdaIssues(mda_paths[i], DictGet(files, mda_paths[i]))
    IN  IF mda_paths = <<>>
        THEN [raised |-> None,
              issues |-> <<Issue("powerplatform", <<"(solution)">>, 1, 1, "LOW",
                                 "Maintainability",
                                 "No Model-Driven App artifacts detected",
                                 "Solution does not appear to contain Model-Driven App XML files.",
                                 "Ensure the Model-Driven App is added to the solution.",
                                 "Low", "MDA-NOT-FOUND")>>]
        ELSE [raised |-> None, issues |-> each[Len(mda_paths)]]


(***************************************************************************)
(* reviewers/canvas_msapp.py, utils/msapp_reader.py                        *)
(***************************************************************************)
\* read_msapp_in_memory: [] without the PK magic; zipfile.ZipFile raises
\* BadZipFile on bytes that start with PK and are no ZIP archive
read_msapp_in_memory(msapp_bytes) ==
    IF ~msapp_bytes.pk
    THEN [raised |-> None, artifacts |-> <<>>]
    ELSE IF ~msapp_bytes.zip
    THEN [raised |-> "BadZipFile", artifacts |-> <<>>]
    ELSE [raised |-> None, artifacts |-> msapp_bytes.artifacts]

\* the formula snippets of the sample containers
FX_PATCH == "Patch(Accounts, Defaults(Accounts), {Name: \"x\"})"

FX_LOOKUP_URL == "LookUp(Sites, Url = \"https://contoso.crm.dynamics.com\")"

\* the rules a snippet matches: <<rule_id, severity, category, title>>
SnippetRules(fx) ==
    (IF fx = FX_LOOKUP_URL
     THEN <<<<"MSAPP-HARDCODED-URL", "MEDIUM", "Maintainability",
              "Hardcoded URL detected in Canvas formula/property">>>>
     ELSE <<>>)
    \o (IF fx = FX_PATCH
        THEN <<<<"MSAPP-PATCH-IFERROR", "MEDIUM", "Reliability",
                 "Patch() used without IfError() handling">>>>
        ELSE <<>>)
    \o (IF fx = FX_LOOKUP_URL
        THEN <<<<"MSAPP-PERF", "LOW", "Performance",
                 "Performance smell: LookUp usage">>>>
        ELSE <<>>)

\* the issues of one hit, located at "<msapp_name> :: <location>"
HitIssues(msapp_name, h) ==
    LET rules == SnippetRules(h.snippet)
    IN  [r \in DOMAIN rules |->
            Issue("powerplatform", msapp_name \o <<"::", h.location>>, h.line, h.line,
                  rules[r][2], rules[r][3], rules[r][4],
                  "Heuristic finding in a Canvas formula.",
                  "See the Canvas app guidance.", "Low", rules[r][1])]

\* keeps the first issue of every (rule_id, file_path, line_start, title)
DedupByKey(issues) ==
    LET Key(it) == <<it.rule_id, it.file_path, it.line_start, it.title>>
        dedup[i \in 0..Len(issues)] ==
            IF i = 0 THEN <<>>
            ELSE IF \E j \in 1..(i - 1) : Key(issues[j]) = Key(issues[i])
                 THEN dedup[i - 1]
                 ELSE Append(dedup[i - 1], issues[i])
    IN  dedup[Len(issues)]

CanvasMsappReviewer_review_msapp(msapp_name, msapp_bytes) ==
    LET read == read_msapp_in_memory(msapp_bytes)
        hits == msapp_bytes.hits
        all[i \in 0..Len(hits)] ==
            IF i = 0 THEN <<>> ELSE all[i - 1] \o HitIssues(msapp_name, hits[i])
    IN  IF read.raised # None
        THEN [raised |-> read.raised, issues |-> <<>>]
        ELSE IF read.artifacts = <<>>
        THEN [raised |-> None,
              issues |-> <<Issue("powerplatform", msapp_name, 1, 1, "MEDIUM",
                                 "Maintainability",
                                 "Canvas app could not be parsed in memory",
                                 "This .msapp could not be read as a ZIP-like package in memory.",
                                 "Re-export the Canvas app from Power Apps Studio.",
                                 "High", "MSAPP-PARSE")>>]
        ELSE IF hits = <<>>
        THEN [raised |-> None,
              issues |-> <<Issue("powerplatform", msapp_name, 1, 1, "LOW",
                                 "Maintainability",
                                 "Canvas app parsed, but no formulas detected by heuristics",
                                 "The .msapp was parsed successfully, but no formulas were found.",
                                 "Enable enhanced extraction rules.",
                                 "Medium", "MSAPP-NO-FX")>>]
        ELSE [raised |-> None, issues |-> DedupByKey(all[Len(hits)])]

(***************************************************************************)
(* reviewers/python_ruff.py                                                *)
(***************************************************************************)
\* c.startswith(prefix)
HasPrefix(c, prefix) == Len(c) >= Len(prefix) /\ SubSeq(c, 1, Len(prefix)) = prefix

_category_from_code(code) ==
    LET c == Upper(code)
    IN  IF HasPrefix(c, "S") THEN "Security"
        ELSE IF HasPrefix(c, "E") \/ HasPrefix(c, "W") THEN "Style"
        ELSE IF HasPrefix(c, "F") \/ HasPrefix(c, "B") THEN "Reliability"
        ELSE IF HasPrefix(c, "C90") \/ HasPrefix(c, "PL") \/ HasPrefix(c, "SIM")
        THEN "Maintainability"
        ELSE "Maintainability"

_severity_from_code(code) ==
    LET c == Upper(code)
    IN  IF HasPrefix(c, "S") THEN "HIGH"
        ELSE IF HasPrefix(c, "B") \/ HasPrefix(c, "F") THEN "MEDIUM"
        ELSE IF HasPrefix(c, "E") \/ HasPrefix(c, "W") THEN "LOW"
        ELSE "MEDIUM"

\* f"{code}: {msg}" if code else (msg or "Ruff finding")
RuffTitle(code, msg) ==
    IF code # "" THEN code \o ": " \o msg
    ELSE IF msg # "" THEN msg
    ELSE "Ruff finding"

RULE_HINT(code) ==
    CASE code = "F401" -> "Remove unused import(s) or use them. Run: ruff check --fix if safe."
      [] code = "F811" ->
            "Avoid redefinition. Rename the variable/function or remove the duplicate definition."
      [] code = "E501" -> "Line too long. Wrap the line or refactor into smaller expressions."
      [] code = "B006" ->
            "Avoid mutable default arguments. Use None and initialize inside the function."
      [] code \in {"S105", "S106", "S107"} ->
            "Possible hard-coded password/secret. Move to env vars/Key Vault and rotate the secret."
      [] OTHER -> "Address this Ruff rule. Consider running: ruff check --fix if appropriate."

RuffDiagnostic(title, rule_id) ==
    Issue("python", <<>>, 1, 1, "MEDIUM", "Reliability", title,
          "Ruff did not produce findings.", "Install Ruff and run it from the project root.",
          "High", rule_id)

\* one run of python -m ruff check . --output-format json in the server's
\* working directory: whether subprocess.run raised, the return code, and
\* stdout, which is empty, not JSON, a JSON object or a JSON list of findings
Stdout(kind, findings) == [kind |-> kind, findings |-> findings]

RuffRun(exec, returncode, stdout) ==
    [exec |-> exec, returncode |-> returncode, stdout |-> stdout]

PythonRuffReviewer_review(files, language, run) ==
    IF run.exec = "raises"
    THEN [raised |-> None,
          issues |-> <<RuffDiagnostic("Ruff could not be executed", "RUFF-EXEC")>>]
    ELSE IF run.stdout.kind = "empty"
    THEN IF run.returncode \notin {0, 1}
         THEN [raised |-> None,
               issues |-> <<RuffDiagnostic("Ruff execution failed", "RUFF-RUN")>>]
         ELSE [raised |-> None, issues |-> <<>>]
    ELSE IF run.stdout.kind = "not json"
    THEN [raised |-> None,
          issues |-> <<RuffDiagnostic("Ruff JSON output could not be parsed", "RUFF-JSON")>>]
    ELSE IF run.stdout.kind = "json object"
    \* findings is a dict: the loop iterates over its keys and str has no .get
    THEN [raised |-> "AttributeError", issues |-> <<>>]
    ELSE LET findings == run.stdout.findings
         IN  [raised |-> None,
              issues |->
                 [i \in DOMAIN findings |->
                     LET f == findings[i]
                     IN  Issue("python", f.filename, f.row, f.end_row,
                               _severity_from_code(f.code), _category_from_code(f.code),
                               RuffTitle(f.code, f.message),
                               IF f.message # "" THEN f.message
                               ELSE RuffTitle(f.code, f.message),
                               RULE_HINT(f.code), "High",
                               IF f.code # "" THEN f.code ELSE "RUFF")]]

(***************************************************************************)
(* reviewers/llm_fallback.py                                               *)
(***************************************************************************)
\* the printable ASCII characters the sample strings use, in code order
ASCII ==
    " !\"#$%&'()*+,-./0123456789:;<=>?@ABCDEFGHIJKLMNOPQRSTUVWXYZ[\\]^_abcdefghijklmnopqrstuvwxyz{|}~"

Ord(c) == CHOOSE i \in 1..Len(ASCII) : SubSeq(ASCII, i, i) = c

\* a <= b as Python compares two str
RECURSIVE StrLeq(_, _)
StrLeq(a, b) ==
    IF a = "" THEN TRUE
    ELSE IF b = "" THEN FALSE
    ELSE IF SubSeq(a, 1, 1) = SubSeq(b, 1, 1)
         THEN StrLeq(SubSeq(a, 2, Len(a)), SubSeq(b, 2, Len(b)))
         ELSE Ord(SubSeq(a, 1, 1)) < Ord(SubSeq(b, 1, 1))

\* the path as one string
RECURSIVE JoinPath(_)
JoinPath(path) ==
    IF path = <<>> THEN ""
    ELSE IF Len(path) = 1 THEN path[1]
    ELSE path[1] \o "/" \o JoinPath(Tail(path))

\* one value of a parsed JSON document, as the fields of a response carry
\* them: null or absent, a string, an integer, or the number n + 0.5
JNull == [kind |-> "null", s |-> "", n |-> 0]

JStr(s) == [kind |-> "str", s |-> s, n |-> 0]

JInt(n) == [kind |-> "int", s |-> "", n |-> n]

JFloat(n) == [kind |-> "float", s |-> "", n |-> n]

\* bool(value)
Truthy(v) ==
    \/ v.kind = "str" /\ v.s # ""
    \/ v.kind = "int" /\ v.n # 0
    \/ v.kind = "float"

\* a or b
Or(a, b) == IF Truthy(a) THEN a ELSE b

RawKeys ==
    {"file_path", "file", "path", "filename", "line_start", "line", "start_line",
     "line_end", "end_line", "remediation", "recommendation", "fix", "resolution",
     "category", "title", "issue", "detail", "description", "severity",
     "confidence", "language", "rule_id", "rule"}

\* one element of the "issues" list: a JSON object, read with raw.get(key),
\* or something else (a string, a number)
Raw(pairs) ==
    [is_dict |-> TRUE,
     get |-> [k \in RawKeys |-> IF DictHas(pairs, k) THEN DictGet(pairs, k) ELSE JNull]]

NonDict == [is_dict |-> FALSE, get |-> [k \in RawKeys |-> JNull]]

DIGITS == "0123456789"

\* the index of the first (last) occurrence of the character c in text, 0 if none
RECURSIVE FindFrom(_, _, _)
FindFrom(text, c, i) ==
    IF i > Len(text) THEN 0
    ELSE IF SubSeq(text, i, i) = c THEN i
    ELSE FindFrom(text, c, i + 1)

RECURSIVE RFindFrom(_, _, _)
RFindFrom(text, c, i) ==
    IF i < 1 THEN 0
    ELSE IF SubSeq(text, i, i) = c THEN i
    ELSE RFindFrom(text, c, i - 1)

\* needle in text
InStr(needle, text) ==
    \E i \in 1..(Len(text) - Len(needle) + 1) :
        SubSeq(text, i, i + Len(needle) - 1) = needle

\* str(n)
RECURSIVE IntStr(_)
IntStr(n) ==
    IF n < 0 THEN "-" \o IntStr(0 - n)
    ELSE IF n < 10 THEN SubSeq(DIGITS, n + 1, n + 1)
    ELSE IntStr(n \div 10) \o SubSeq(DIGITS, (n % 10) + 1, (n % 10) + 1)

\* the value of a string of decimal digits, -1 if it is not one
RECURSIVE DigitsValue(_, _)
AddDigit(s, acc, d) ==
    IF d = 0 THEN -1
    ELSE DigitsValue(SubSeq(s, 2, Len(s)), 10 * acc + (d - 1))

DigitsValue(s, acc) ==
    IF s = "" THEN acc
    ELSE AddDigit(s, acc, FindFrom(DIGITS, SubSeq(s, 1, 1), 1))

\* the sign applied to the value of the digits, or the failure to parse them
SignedValue(sign, value) ==
    IF value < 0 THEN [ok |-> FALSE, n |-> 0]
    ELSE IF sign = "-" THEN [ok |-> TRUE, n |-> 0 - value]
    ELSE [ok |-> TRUE, n |-> value]

ParseDigits(digits) == IF digits = "" THEN -1 ELSE DigitsValue(digits, 0)

\* int(t) for a stripped string: an optional sign, then decimal digits
ParseInt(t) ==
    IF t # "" /\ SubSeq(t, 1, 1) \in {"+", "-"}
    THEN SignedValue(SubSeq(t, 1, 1), ParseDigits(SubSeq(t, 2, Len(t))))
    ELSE SignedValue("+", ParseDigits(t))

\* int(value): a number is truncated, a string is parsed after strip(),
\* anything else raises
int(v) ==
    IF v.kind \in {"int", "float"} THEN [ok |-> TRUE, n |-> v.n]
    ELSE IF v.kind = "str" THEN ParseInt(Strip(v.s))
    ELSE [ok |-> FALSE, n |-> 0]

\* str(value)
str(v) ==
    IF v.kind = "str" THEN v.s
    ELSE IF v.kind = "int" THEN IntStr(v.n)
    ELSE IF v.kind = "float" THEN IntStr(v.n) \o ".5"
    ELSE "None"

\* a path string as its segments
RECURSIVE SplitPath(_)
SplitAt(s, i) ==
    IF s = "" THEN <<>>
    ELSE IF i = 0 THEN <<s>>
    ELSE <<SubSeq(s, 1, i - 1)>> \o SplitPath(SubSeq(s, i + 1, Len(s)))

SplitPath(s) == SplitAt(s, FindFrom(s, "/", 1))

\* text[start : end + 1] for the first "{" and the last "}", or ""
Between(text, start, end) ==
    IF start = 0 \/ end = 0 \/ end <= start THEN ""
    ELSE SubSeq(text, start, end)

_extract_first_json_object(text) ==
    Between(text, FindFrom(text, "{", 1), RFindFrom(text, "}", Len(text)))

\* items with a key, sorted by path
RECURSIVE SortedInsert(_, _)
SortedInsert(sorted, item) ==
    IF sorted = <<>> THEN <<item>>
    ELSE IF StrLeq(JoinPath(item[1]), JoinPath(sorted[1][1])) THEN <<item>> \o sorted
    ELSE <<sorted[1]>> \o SortedInsert(Tail(sorted), item)

_stable_items(files) ==
    LET sorted[i \in 0..Len(files)] ==
            IF i = 0 THEN <<>>
            ELSE IF files[i][1] = <<>> THEN sorted[i - 1]
            ELSE SortedInsert(sorted[i - 1], files[i])
    IN  sorted[Len(files)]

max_total_chars_per_chunk == 55000

max_chars_per_file == 12000

max_chunks == 6

FILE_TRUNCATED_MARK == "\n\n[TRUNCATED: file too long]"

\* lp.endswith(suffix), on the file name of the path
HasSuffix(name, suffix) ==
    Len(name) >= Len(suffix)
    /\ SubSeq(name, Len(name) - Len(suffix) + 1, Len(name)) = suffix

\* current[path] = text, after the chunk was closed if the text does not fit
PutFile(s, path, text) ==
    IF s.used + Len(text) > max_total_chars_per_chunk /\ s.current # <<>>
    THEN [chunks |-> Append(s.chunks, s.current),
          current |-> <<<<path, text>>>>, used |-> Len(text)]
    ELSE [s EXCEPT !.current = DictSet(@, path, text), !.used = @ + Len(text)]

\* one turn of the loop over the sorted items, text being content.strip()
ChunkFile(s, path, lp, text) ==
    IF Len(s.chunks) >= max_chunks THEN s
    ELSE IF \E e \in {".png", ".jpg", ".jpeg", ".gif", ".dll", ".exe",
                      ".zip", ".pdf", ".pyc"} : HasSuffix(lp, e)
    THEN s
    ELSE IF text = "" THEN s
    ELSE IF Len(text) > max_chars_per_file
    THEN PutFile(s, path, SubSeq(text, 1, max_chars_per_file) \o FILE_TRUNCATED_MARK)
    ELSE PutFile(s, path, text)

\* the chunks closed in the loop, and the open one if there is room for it
ClosedChunks(s) ==
    IF s.current # <<>> /\ Len(s.chunks) < max_chunks
    THEN Append(s.chunks, s.current)
    ELSE s.chunks

ChunkItems(items) ==
    LET st[i \in 0..Len(items)] ==
            IF i = 0
            THEN [chunks |-> <<>>, current |-> <<>>, used |-> 0]
            ELSE ChunkFile(st[i - 1], items[i][1], Lower(Last(items[i][1])),
                           Strip(items[i][2]))
    IN  ClosedChunks(st[Len(items)])

_chunk_files(files) == ChunkItems(_stable_items(files))

RemediationFor(c, t) ==
    IF c = "security"
    THEN IF InStr("secret", t) \/ InStr("key", t) \/ InStr("token", t)
         THEN "Move secrets to environment variables/Key Vault. Rotate any exposed credentials."
         ELSE IF InStr("subprocess", t)
         THEN "Validate/sanitize inputs and avoid shell=True. Prefer safe APIs and allowlists."
         ELSE "Follow secure coding practices; validate inputs and reduce attack surface."
    ELSE IF c = "performance"
    THEN IF InStr("timeout", t)
         THEN "Add timeouts to external calls/subprocess. Avoid unbounded waits."
         ELSE "Profile hotspots; reduce repeated work; use caching/streaming where appropriate."
    ELSE IF c = "reliability"
    THEN IF InStr("silent", t) \/ InStr("swallow", t)
         THEN "Do not swallow exceptions. Log the error and return a clear, user-friendly message."
         ELSE "Improve error handling and add logging/tests for failure paths."
    ELSE IF c = "style"
    THEN "Align with coding standards (formatting, naming, lint rules) and run auto-formatters."
    ELSE "Refactor into smaller functions/modules, remove duplication, and add tests/documentation."

_default_remediation(category, title) == RemediationFor(Lower(category), Lower(title))

\* mutant: the start is clamped, the end is left as given
ClampLinesStartOnly(issue, start, end) ==
    [raised |-> None,
     norm |-> [issue EXCEPT !.line_start = IF start <= 0 THEN 1 ELSE start,
                            !.line_end = end]]

\* line_start <= 0 becomes 1, then line_end < line_start becomes line_start
ClampLines(issue, start, end) ==
    [raised |-> None,
     norm |-> [issue EXCEPT !.line_start = IF start <= 0 THEN 1 ELSE start,
                            !.line_end = IF end < (IF start <= 0 THEN 1 ELSE start)
                                         THEN (IF start <= 0 THEN 1 ELSE start)
                                         ELSE end]]

\* int(line_end), or line_start as converted when that raises
ConvertEnd(issue, start, end) ==
    ClampLines(issue, start, IF end.ok THEN end.n ELSE start)

\* int(line_start), or 1 when that raises
ConvertLines(issue, start, end) ==
    ConvertEnd(issue, IF start.ok THEN start.n ELSE 1, end)

\* the values chosen among the key variants, turned into the fields; the
\* exception raised on the way: .upper() and .strip() exist on str only, and
\* so does the .lower() of _default_remediation
NormalizeChosen(file_path, raw_start, raw_end, remediation, category, title, detail, raw_severity, raw_confidence, language, rule_id) ==
    IF raw_severity.kind # "str" THEN [raised |-> "AttributeError", norm |-> None]
    ELSE IF remediation.kind # "str" THEN [raised |-> "AttributeError", norm |-> None]
    ELSE IF Strip(remediation.s) = "" /\ (category.kind # "str" \/ title.kind # "str")
    THEN [raised |-> "AttributeError", norm |-> None]
    ELSE ConvertLines(
             Issue(language.s,
                   SplitPath(IF Strip(str(file_path)) = "" THEN "UNKNOWN"
                             ELSE str(file_path)),
                   0, 0,
                   IF Upper(raw_severity.s) \in {"LOW", "MEDIUM", "HIGH", "CRITICAL"}
                   THEN Upper(raw_severity.s)
                   ELSE "MEDIUM",
                   category.s, title.s, detail.s,
                   IF Strip(remediation.s) = ""
                   THEN _default_remediation(category.s, title.s)
                   ELSE remediation.s,
                   IF raw_confidence.kind = "str"
                      /\ raw_confidence.s \in {"High", "Medium", "Low"}
                   THEN raw_confidence.s
                   ELSE "Medium",
                   IF rule_id.kind = "null" THEN None ELSE rule_id.s),
             int(raw_start), int(raw_end))

\* line_end, detail: the value given, or the line_start, title chosen
ChooseDefaults(get, raw_start, title) ==
    NormalizeChosen(
        Or(get["file_path"], Or(get["file"], Or(get["path"], Or(get["filename"], JStr(""))))),
        raw_start,
        Or(get["line_end"], Or(get["end_line"], raw_start)),
        Or(get["remediation"], Or(get["recommendation"], Or(get["fix"],
           Or(get["resolution"], JStr(""))))),
        Or(get["category"], JStr("Maintainability")),
        title,
        Or(get["detail"], Or(get["description"], title)),
        Or(get["severity"], JStr("MEDIUM")),
        Or(get["confidence"], JStr("Medium")),
        Or(get["language"], JStr("")),
        Or(get["rule_id"], Or(get["rule"], JNull)))

\* the normalised fields of one raw issue object, or the exception raised
_normalize_issue_dict(raw) ==
    ChooseDefaults(raw.get,
                   Or(raw.get["line_start"], Or(raw.get["line"],
                      Or(raw.get["start_line"], JInt(1)))),
                   Or(raw.get["title"], Or(raw.get["issue"], JStr("LLM finding"))))

_dedupe_key(it) ==
    <<Lower(it.language), LowerPath(it.file_path), it.line_start, it.line_end,
      Lower(it.category), StripLower(it.title)>>

_dedupe_issues(issues) ==
    LET out[i \in 0..Len(issues)] ==
            IF i = 0 THEN <<>>
            ELSE IF \E j \in 1..(i - 1) : _dedupe_key(issues[j]) = _dedupe_key(issues[i])
            THEN out[i - 1]
            ELSE Append(out[i - 1], issues[i])
    IN  out[Len(issues)]

\* the records the model answers with
RAW_UNUSED ==
    Raw(<<<<"file_path", JStr("x.js")>>, <<"line_start", JInt(1)>>,
          <<"line_end", JInt(1)>>, <<"severity", JStr("MEDIUM")>>,
          <<"category", JStr("Maintainability")>>, <<"title", JStr("Unused variable")>>,
          <<"detail", JStr("No detail")>>, <<"remediation", JStr("Remove it")>>,
          <<"confidence", JStr("Medium")>>>>)

RAW_BARE ==
    Raw(<<<<"title", JStr("Hardcoded secret")>>, <<"category", JStr("Security")>>,
          <<"severity", JStr("high")>>>>)

RAW_LINES ==
    Raw(<<<<"file", JStr("src/app.js")>>, <<"line", JInt(9)>>, <<"end_line", JInt(3)>>,
          <<"issue", JStr("Request without timeout")>>,
          <<"category", JStr("Performance")>>, <<"fix", JStr("   ")>>>>)

RAW_TEXT_LINES ==
    Raw(<<<<"path", JStr("src/app.js")>>, <<"line_start", JStr("abc")>>,
          <<"line_end", JStr(" 7 ")>>, <<"title", JStr("Swallowed error")>>,
          <<"category", JStr("Reliability")>>>>)

RAW_NEGATIVE ==
    Raw(<<<<"filename", JStr("  ")>>, <<"line_start", JInt(-4)>>,
          <<"line_end", JFloat(2)>>, <<"category", JStr("Style")>>,
          <<"resolution", JStr("Rename it")>>>>)

RAW_NUMBER_REMEDIATION ==
    Raw(<<<<"file_path", JStr("x.js")>>, <<"title", JStr("Unused variable")>>,
          <<"remediation", JInt(5)>>>>)

RAW_NUMBER_SEVERITY ==
    Raw(<<<<"file_path", JStr("x.js")>>, <<"title", JStr("Unused variable")>>,
          <<"remediation", JStr("Remove it")>>, <<"severity", JInt(3)>>>>)

\* the JSON documents of the responses
JSON_EMPTY == "{\"issues\": []}"

JSON_UNUSED ==
    "{\"issues\": [{\"file_path\": \"x.js\", \"line_start\": 1, \"line_end\": 1, \"severity\": \"MEDIUM\", \"category\": \"Maintainability\", \"title\": \"Unused variable\", \"detail\": \"No detail\", \"remediation\": \"Remove it\", \"confidence\": \"Medium\"}]}"

JSON_BARE ==
    "{\"issues\": [\"see below\", {\"title\": \"Hardcoded secret\", \"category\": \"Security\", \"severity\": \"high\"}]}"

JSON_LINES ==
    "{\"issues\": [{\"file\": \"src/app.js\", \"line\": 9, \"end_line\": 3, \"issue\": \"Request without timeout\", \"category\": \"Performance\", \"fix\": \"   \"}, {\"path\": \"src/app.js\", \"line_start\": \"abc\", \"line_end\": \" 7 \", \"title\": \"Swallowed error\", \"category\": \"Reliability\"}]}"

JSON_NEGATIVE ==
    "{\"issues\": [{\"filename\": \"  \", \"line_start\": -4, \"line_end\": 2.5, \"category\": \"Style\", \"resolution\": \"Rename it\"}]}"

JSON_NUMBER_REMEDIATION ==
    "{\"issues\": [{\"title\": \"Hardcoded secret\", \"category\": \"Security\", \"severity\": \"high\"}, {\"file_path\": \"x.js\", \"title\": \"Unused variable\", \"remediation\": 5}]}"

JSON_NUMBER_SEVERITY ==
    "{\"issues\": [{\"file_path\": \"x.js\", \"title\": \"Unused variable\", \"remediation\": \"Remove it\", \"severity\": 3}]}"

JSON_NOT_A_LIST == "{\"issues\": 5}"

\* json.loads(json_text) and payload.get("issues", []) or []: the documents
\* above parse to their records, {"issues": 5} to a number, which the loop
\* cannot iterate over, and any other text does not parse
json_loads(json_text) ==
    CASE json_text = JSON_EMPTY -> [ok |-> TRUE, list |-> TRUE, issues |-> <<>>]
      [] json_text = JSON_UNUSED -> [ok |-> TRUE, list |-> TRUE, issues |-> <<RAW_UNUSED>>]
      [] json_text = JSON_BARE ->
            [ok |-> TRUE, list |-> TRUE, issues |-> <<NonDict, RAW_BARE>>]
      [] json_text = JSON_LINES ->
            [ok |-> TRUE, list |-> TRUE, issues |-> <<RAW_LINES, RAW_TEXT_LINES>>]
      [] json_text = JSON_NEGATIVE ->
            [ok |-> TRUE, list |-> TRUE, issues |-> <<RAW_NEGATIVE>>]
      [] json_text = JSON_NUMBER_REMEDIATION ->
            [ok |-> TRUE, list |-> TRUE, issues |-> <<RAW_BARE, RAW_NUMBER_REMEDIATION>>]
      [] json_text = JSON_NUMBER_SEVERITY ->
            [ok |-> TRUE, list |-> TRUE, issues |-> <<RAW_NUMBER_SEVERITY>>]
      [] json_text = JSON_NOT_A_LIST -> [ok |-> TRUE, list |-> FALSE, issues |-> <<>>]
      [] OTHER -> [ok |-> FALSE, list |-> FALSE, issues |-> <<>>]

\* one completion request: it raises, or it answers with a message content
Response(raises, content) == [raises |-> raises, content |-> content]

\* norm["language"] = language when it has none; all_issues.append(Issue(**norm))
AppendNormalized(prev, n, language) ==
    IF n.raised # None THEN [raised |-> n.raised, issues |-> <<>>]
    ELSE [raised |-> None,
          issues |-> Append(prev.issues,
                            IF n.norm.language = ""
                            THEN [n.norm EXCEPT !.language = language]
                            ELSE n.norm)]

\* the issues of one chunk appended to those of the chunks before it
ChunkIssues(prev, raws, language) ==
    LET acc[i \in 0..Len(raws)] ==
            IF i = 0 THEN prev
            ELSE IF acc[i - 1].raised # None THEN acc[i - 1]
            ELSE IF ~raws[i].is_dict THEN acc[i - 1]
            ELSE AppendNormalized(acc[i - 1], _normalize_issue_dict(raws[i]), language)
    IN  acc[Len(raws)]

\* json.loads failed: the chunk is skipped; "issues" is no list: the loop
\* over it raises
ChunkPayload(prev, payload, language) ==
    IF ~payload.ok THEN prev
    ELSE IF ~payload.list THEN [raised |-> "TypeError", issues |-> <<>>]
    ELSE ChunkIssues(prev, payload.issues, language)

\* no JSON object in the answer: the chunk is skipped
ChunkAnswer(prev, json_text, language) ==
    IF json_text = "" THEN prev
    ELSE ChunkPayload(prev, json_loads(json_text), language)

\* return _dedupe_issues(all_issues), unless an exception left the loop
ReviewReturn(end) ==
    IF end.raised # None THEN end
    ELSE [raised |-> None, issues |-> _dedupe_issues(end.issues)]

\* the loop over the chunks; llm[i] is what the i-th completion request does
ReviewChunks(chunks, language, llm) ==
    LET run[i \in 0..Len(chunks)] ==
            IF i = 0 THEN [raised |-> None, issues |-> <<>>]
            ELSE IF run[i - 1].raised # None THEN run[i - 1]
            ELSE IF llm[i].raises THEN [raised |-> "APIError", issues |-> <<>>]
            ELSE ChunkAnswer(run[i - 1], _extract_first_json_object(llm[i].content),
                             language)
    IN  ReviewReturn(run[Len(chunks)])

\* LLMFallbackReviewer.review(files, language)
LLMFallbackReviewer_review(files, language, llm) ==
    IF files = <<>>
    THEN [raised |-> None, issues |-> <<>>]
    ELSE ReviewChunks(_chunk_files(files), language, llm)


(***************************************************************************)
(* router.py: the /review pipeline                                         *)
(***************************************************************************)
ReviewResult(issues, checklist, overall, summary) ==
    [issues |-> issues, checklist |-> checklist, overall |-> overall,
     summary |-> summary]

\* placeholders of the two values a run that fails never builds
NoReviewResult == ReviewResult(<<>>, <<>>, "NONE", <<>>)

NoMeta == [project_name |-> None]

\* an absent upload (zip_file is None)
NoUpload == [present |-> FALSE, filename |-> "", bytes |-> [len |-> "zero"]]

Upload(filename, bytes) == [present |-> TRUE, filename |-> filename, bytes |-> bytes]

\* what a /review request leads to; fields of stages not reached keep these
NoOutcome ==
    [status |-> 0, template |-> None, error |-> None, unhandled |-> None,
     decoded |-> FALSE, entries |-> <<>>, text_files |-> <<>>, msapps |-> <<>>,
     languages |-> <<>>, files_for_review |-> <<>>,
     selected |-> <<>>, ran |-> <<>>, raised_by |-> None,
     rr |-> NoReviewResult, meta |-> NoMeta]

UserError(message) ==
    [NoOutcome EXCEPT !.status = 400, !.template = "index.html", !.error = message]

\* lines 458-489: the source of the archive bytes, or the 400 page
ReadSource(req) ==
    IF req.source_type = "zip"
    THEN IF ~req.zip_file.present
         THEN [error |-> "Please choose a ZIP file."]
         ELSE IF req.zip_file.bytes.len = "zero"
         THEN [error |-> "Uploaded ZIP is empty."]
         ELSE IF req.zip_file.bytes.len = "over"
         THEN [error |-> "ZIP too large."]
         ELSE [error |-> None, zip_bytes |-> req.zip_file.bytes,
               project_display_name |->
                   IF req.zip_file.filename = "" THEN "Uploaded ZIP"
                   ELSE req.zip_file.filename]
    ELSE IF req.source_type = "repo"
    THEN IF req.fetch.raised = "UserFacingRepoError"
         THEN [error |-> "Repository or branch not found."]
         ELSE IF req.fetch.raised # None
         THEN [error |-> "Something went wrong while processing your request. Please try again."]
         ELSE IF req.fetch.bytes.len = "over"
         THEN [error |-> "Repository ZIP too large."]
         ELSE [error |-> None, zip_bytes |-> req.fetch.bytes,
               project_display_name |-> req.repo_path]
    ELSE [error |-> "Invalid source selected."]

\* lines 510-522: the reviewer calls of a run, in call order
ReviewerCalls(languages, msapps, api_key) ==
    (IF InSeq("python", languages)
     THEN <<[reviewer |-> "python_reviewer", arg |-> "python"]>> ELSE <<>>)
    \o (IF InSeq("powerplatform", languages)
        THEN <<[reviewer |-> "powerplatform_reviewer", arg |-> "powerplatform"],
               [reviewer |-> "model_driven_reviewer", arg |-> "powerplatform"]>>
             \o [i \in DOMAIN msapps |->
                    [reviewer |-> "canvas_msapp_reviewer", arg |-> i]]
        ELSE <<>>)
    \o (IF api_key
        THEN LET rest == SelectSeq(languages,
                                   LAMBDA l : l \notin {"python", "powerplatform"})
             IN  [i \in DOMAIN rest |-> [reviewer |-> "llm_reviewer", arg |-> rest[i]]]
        ELSE <<>>)

CallReviewer(call, files_for_review, msapps, req) ==
    CASE call.reviewer = "python_reviewer" ->
            PythonRuffReviewer_review(files_for_review, call.arg, req.ruff)
      [] call.reviewer = "powerplatform_reviewer" ->
            PowerPlatformReviewer_review(files_for_review, call.arg)
      [] call.reviewer = "model_driven_reviewer" ->
            ModelDrivenAppReviewer_review(files_for_review, call.arg)
      [] call.reviewer = "canvas_msapp_reviewer" ->
            CanvasMsappReviewer_review_msapp(msapps[call.arg][1], msapps[call.arg][2])
      [] call.reviewer = "llm_reviewer" ->
            LLMFallbackReviewer_review(files_for_review, call.arg, req.llm)

\* issues.extend(...) call after call; an exception raised by a reviewer is
\* not caught and ends the run
ReviewerStep(prev, call, res) ==
    IF prev.raised # None THEN prev
    ELSE IF res.raised # None
    THEN [prev EXCEPT !.ran = Append(@, call), !.raised = res.raised,
                      !.raised_by = call.reviewer]
    ELSE [prev EXCEPT !.ran = Append(@, call), !.issues = @ \o res.issues]

RunReviewers(calls, files_for_review, msapps, req) ==
    LET run[i \in 0..Len(calls)] ==
            IF i = 0
            THEN [issues |-> <<>>, ran |-> <<>>, raised |-> None, raised_by |-> None]
            ELSE ReviewerStep(run[i - 1], calls[i],
                              CallReviewer(calls[i], files_for_review, msapps, req))
    IN  run[Len(calls)]

\* review(), stage by stage; each stage takes what the stages before it
\* have computed. Lines 524-552: checklist, verdict, ReviewResult and meta.
review_result(req, src, staged, languages, files_for_review, calls, run, checklist) ==
    [staged EXCEPT
        !.status = 200, !.template = "report.html",
        !.languages = languages,
        !.files_for_review = files_for_review,
        !.selected = calls, !.ran = run.ran,
        !.rr = ReviewResult(run.issues, checklist, overall_from_checklist(checklist),
                            <<"Platforms", languages, "Issues", Len(run.issues)>>),
        !.meta = [project_name |-> src.project_display_name,
                  prepared_by |-> "Automation Factory",
                  source_type |-> req.source_type,
                  languages |-> languages,
                  files_analyzed |-> Len(staged.entries),
                  text_files |-> Len(staged.text_files),
                  msapps |-> Len(staged.msapps),
                  debug_file_count_after_filter |-> Len(files_for_review)]]

\* lines 508-522 have run: an exception of a reviewer leaves the handler
review_reviewed(req, src, staged, languages, files_for_review, calls, run) ==
    IF run.raised # None
    THEN [staged EXCEPT !.status = 500, !.unhandled = run.raised,
                        !.languages = languages,
                        !.files_for_review = files_for_review,
                        !.selected = calls, !.ran = run.ran,
                        !.raised_by = run.raised_by]
    ELSE review_result(req, src, staged, languages, files_for_review, calls, run,
                       make_checklist(run.issues, languages))

review_dispatch(req, src, staged, languages, files_for_review, calls) ==
    review_reviewed(req, src, staged, languages, files_for_review, calls,
                    RunReviewers(calls, files_for_review, staged.msapps, req))

\* lines 505-506 have run
review_detected(req, src, staged, languages, files_for_review) ==
    review_dispatch(req, src, staged, languages, files_for_review,
                    ReviewerCalls(languages, staged.msapps, req.api_key))

\* lines 494-506: the no-content page, else detection, then the filter
review_files(req, src, staged) ==
    IF staged.text_files = <<>> /\ staged.msapps = <<>>
    THEN [staged EXCEPT !.status = 400, !.template = "index.html",
                        !.error = "No readable code or .msapp found in the provided source."]
    ELSE review_detected(req, src, staged, detect_languages(staged.text_files),
                         filter_files_for_review(staged.text_files))

\* lines 492-495
review_entries(req, src, entries) ==
    review_files(req, src,
                 [NoOutcome EXCEPT !.decoded = TRUE, !.entries = entries,
                                   !.text_files = as_text_files(entries),
                                   !.msapps = extract_binary(entries, ".msapp")])

\* line 491, outside the try block: BadZipFile leaves the handler
review_read(req, src, read) ==
    IF read.raised # None
    THEN [NoOutcome EXCEPT !.status = 500, !.unhandled = read.raised]
    ELSE review_entries(req, src, normalize_zip_entries(read.entries))

review_source(req, src) ==
    IF src.error # None THEN UserError(src.error)
    ELSE review_read(req, src, read_zip_in_memory(src.zip_bytes))

\* review() without the sweep before it and the cache insert after it
review_pipeline(req) == review_source(req, ReadSource(req))

(***************************************************************************)
(* Sample requests                                                         *)
(***************************************************************************)
AR_EMPTY == <<>>

AR_PNG == << <<<<"logo.png">>, FileData(BINARY_TEXT)>> >>

AR_PY == << <<<<"repo-main", "app.py">>, FileData(PY_SOURCE)>> >>

AR_PY_BLANK == << <<<<"app.py">>, FileData(BLANK)>> >>

AR_PY_VENDOR ==
    << <<<<"repo-main", "app.py">>, FileData(PY_SOURCE)>>,
       <<<<"repo-main", "node_modules", "x.js">>, FileData(JS_SOURCE)>> >>

AR_JS ==
    << <<<<"x.js">>, FileData(JS_SOURCE)>>,
       <<<<"package.json">>, FileData(PKG_JSON)>> >>

AR_SOL == << <<<<"solution.xml">>, FileData(SOL_NO_PUBLISHER)>> >>

AR_SOL_FULL ==
    << <<<<"solution.xml">>, FileData(SOL_PUBLISHER)>>,
       <<<<"appmodule.xml">>, FileData(APPMODULE_XML)>>,
       <<<<"sol", "Workflows", "flow.json">>, FileData(FLOW_JSON)>> >>

HIT_PATCH == [location |-> "Control=controls[0] :: Property=OnSelect (Src/App.json)",
              line |-> 1, snippet |-> FX_PATCH]

AR_MSAPP ==
    << <<<<"solution.xml">>, FileData(SOL_PUBLISHER)>>,
       <<<<"CanvasApps", "app.msapp">>,
         MsappData(TRUE, TRUE, <<"Src/App.json">>, <<HIT_PATCH, HIT_PATCH>>)>> >>

AR_DOT ==
    << <<<<"solution.xml">>, FileData(SOL_PUBLISHER)>>,
       <<<<"notes.">>, MsappData(TRUE, FALSE, <<>>, <<>>)>> >>

Archives ==
    {AR_EMPTY, AR_PNG, AR_PY, AR_PY_BLANK, AR_PY_VENDOR, AR_JS, AR_SOL,
     AR_SOL_FULL, AR_MSAPP, AR_DOT}

Blobs ==
    {Blob("zero", FALSE, <<>>), Blob("over", TRUE, AR_PY), Blob("ok", FALSE, <<>>)}
    \cup {Blob("ok", TRUE, A) : A \in Archives}

Finding(code, message, filename, row) ==
    [code |-> code, message |-> message, filename |-> filename, row |-> row,
     end_row |-> row]

F_S105 == Finding("S105", "Possible hardcoded password", <<"srv", "app.py">>, 3)

F_E702 == Finding("E702", "Multiple statements on one line (semicolon)",
                  <<"srv", "app.py">>, 1)

NoStdout == Stdout("empty", <<>>)

NoRuff == RuffRun("ok", 0, NoStdout)

RuffRuns ==
    {RuffRun("raises", 0, NoStdout), RuffRun("ok", 0, NoStdout),
     RuffRun("ok", 2, NoStdout),
     RuffRun("ok", 1, Stdout("not json", <<>>)),
     RuffRun("ok", 1, Stdout("json object", <<>>)),
     RuffRun("ok", 1, Stdout("json list", <<F_S105>>)),
     RuffRun("ok", 1, Stdout("json list", <<F_E702, F_E702>>)),
     RuffRun("ok", 1, Stdout("json list", <<F_E702, F_S105>>))}

\* no finding: the model answers with an empty list
NoFindings == <<Response(FALSE, JSON_EMPTY)>>

LLMRuns ==
    {<<Response(TRUE, "")>>, NoFindings,
     <<Response(FALSE, "Here are the findings:\n" \o JSON_UNUSED \o "\nDone.")>>}

Request(source_type, zip_file, fetch, repo_path, ruff, llm, api_key) ==
    [source_type |-> source_type, zip_file |-> zip_file, fetch |-> fetch,
     repo_path |-> repo_path, ruff |-> ruff, llm |-> llm, api_key |-> api_key]

NoFetch == [raised |-> None, bytes |-> Blob("zero", FALSE, <<>>)]

Requests ==
    {Request("zip", Upload("upload.zip", b), NoFetch, "", r, l, k) :
        b \in Blobs, r \in RuffRuns, l \in LLMRuns, k \in BOOLEAN}
    \cup {Request("zip", NoUpload, NoFetch, "", r, l, FALSE) :
        r \in {RuffRun("ok", 0, NoStdout)}, l \in {NoFindings}}
    \cup {Request(st, NoUpload, f, "owner/repo", RuffRun("ok", 0, NoStdout),
                  NoFindings, FALSE) :
        st \in {"repo", "ftp"},
        f \in {[raised |-> "UserFacingRepoError", bytes |-> Blob("zero", FALSE, <<>>)],
               [raised |-> "URLTimeout", bytes |-> Blob("zero", FALSE, <<>>)],
               [raised |-> None, bytes |-> Blob("over", TRUE, AR_PY)],
               [raised |-> None, bytes |-> Blob("ok", FALSE, <<>>)],
               [raised |-> None, bytes |-> Blob("ok", TRUE, AR_PY)]}}

PlInit == pl \in {[pc |-> "in", req |-> r, out |-> NoOutcome] : r \in Requests}

\* the body of review() between the sweep and the cache insert
RunPipeline ==
    /\ pl.pc = "in"
    /\ pl' = [pl EXCEPT !.pc = "done", !.out = review_pipeline(pl.req)]
    /\ UNCHANGED <<nz, cl, unitVars, cacheVars>>


(***************************************************************************)
(* router.py: the report cache and its three handlers, one request at a    *)
(* time                                                                    *)
(***************************************************************************)
REPORT_TTL_SECONDS == 30 * 60

\* time.time() advances by ClockStep seconds between requests, up to MaxClock
ClockStep == 600

MaxClock == 2400

\* reports cached within one behaviour
MaxReports == 2

\* mutant: the sweep purges nothing
_cleanup_cache_keeps_expired(cache, now) == cache

\* mutant: the sweep purges from the TTL on, not after it
_cleanup_cache_at_ttl(cache, now) ==
    SelectSeq(cache, LAMBDA e : ~(now - e[2].created >= REPORT_TTL_SECONDS))

\* _cleanup_cache run without interference: every key of the snapshot whose
\* entry is older than the TTL at the time the sweep began is popped
_cleanup_cache(cache, now) ==
    SelectSeq(cache, LAMBDA e : ~(now - e[2].created > REPORT_TTL_SECONDS))

\* mutant: the insert of line 552 is lost
cache_insert_dropped(cache, report_id, created, rr, meta) == cache

\* REPORT_CACHE[report_id] = {"created": ..., "result": rr, "meta": meta}
cache_insert(cache, report_id, created, rr, meta) ==
    DictSet(cache, report_id, [created |-> created, result |-> rr, meta |-> meta])

\* REPORT_CACHE.get(report_id), then 404 when there is no item
report_lookup(cache, report_id) ==
    IF DictHas(cache, report_id)
    THEN [status |-> 200, detail |-> None, item |-> DictGet(cache, report_id)]
    ELSE [status |-> 404, detail |-> "Report expired",
          item |-> [created |-> 0, result |-> NoReviewResult, meta |-> NoMeta]]

R_OK_PY ==
    Request("zip", Upload("upload.zip", Blob("ok", TRUE, AR_PY)), NoFetch, "",
            RuffRun("ok", 1, Stdout("json list", <<F_S105>>)),
            NoFindings, FALSE)

R_OK_SOL ==
    Request("zip", Upload("upload.zip", Blob("ok", TRUE, AR_SOL_FULL)), NoFetch, "",
            NoRuff, NoFindings, FALSE)

R_NO_FILE ==
    Request("zip", NoUpload, NoFetch, "", NoRuff,
            NoFindings, FALSE)

R_CORRUPT ==
    Request("zip", Upload("upload.zip", Blob("ok", FALSE, <<>>)), NoFetch, "",
            NoRuff, NoFindings, FALSE)

R_NO_CONTENT ==
    Request("zip", Upload("upload.zip", Blob("ok", TRUE, AR_PNG)), NoFetch, "",
            NoRuff, NoFindings, FALSE)

R_REVIEWER_RAISES ==
    Request("zip", Upload("upload.zip", Blob("ok", TRUE, AR_PY)), NoFetch, "",
            RuffRun("ok", 1, Stdout("json object", <<>>)),
            NoFindings, FALSE)

CacheRequests ==
    {R_OK_PY, R_OK_SOL, R_NO_FILE, R_CORRUPT, R_NO_CONTENT, R_REVIEWER_RAISES}

\* the ids a client may ask for: every id that can have been issued, and one
\* that never is
ReportIds == 0..MaxReports

\* the entries of the cache that a sweep at the given time has to purge
Expired(cache, now) ==
    {cache[i][1] : i \in {j \in DOMAIN cache :
                             now - cache[j][2].created > REPORT_TTL_SECONDS}}

\* lines 552-561 of review(), or the way out of it on a failure, after the
\* sweep of line 456 has left the given cache
ReviewEnd(swept, out, report_id) ==
    /\ out.status = 200 => next_id < MaxReports
    /\ IF out.status = 200
       THEN /\ REPORT_CACHE' = cache_insert(swept, report_id, clock, out.rr, out.meta)
            /\ next_id' = report_id
       ELSE /\ REPORT_CACHE' = swept
            /\ UNCHANGED next_id
    /\ last' = [op |-> "review", at |-> clock, status |-> out.status,
                report_id |-> report_id,
                error |-> out.error, unhandled |-> out.unhandled,
                issued_before |-> 1..next_id,
                keys_before |-> DictKeys(REPORT_CACHE),
                expired_before |-> Expired(REPORT_CACHE, clock),
                result |-> out.rr]

\* POST /review; str(uuid.uuid4()) is the next id never issued before
Review(req) ==
    /\ threads = <<>>
    /\ ReviewEnd(_cleanup_cache(REPORT_CACHE, clock), review_pipeline(req), next_id + 1)
    /\ UNCHANGED <<nz, cl, pl, unitVars, clock, threads>>

\* what report_html() and report_pdf() leave behind
ReportEnd(op, report_id, swept, found) ==
    /\ REPORT_CACHE' = swept
    /\ last' = [op |-> op, at |-> clock, status |-> found.status,
                report_id |-> report_id,
                error |-> found.detail, unhandled |-> None,
                issued_before |-> 1..next_id,
                keys_before |-> DictKeys(REPORT_CACHE),
                expired_before |-> Expired(REPORT_CACHE, clock),
                result |-> found.item.result]

\* GET /report/{report_id}
ReportHtml(report_id) ==
    /\ threads = <<>>
    /\ ReportEnd("report_html", report_id, _cleanup_cache(REPORT_CACHE, clock),
                 report_lookup(_cleanup_cache(REPORT_CACHE, clock), report_id))
    /\ UNCHANGED <<nz, cl, pl, unitVars, clock, next_id, threads>>

\* GET /report/{report_id}/pdf
ReportPdf(report_id) ==
    /\ threads = <<>>
    /\ ReportEnd("report_pdf", report_id, _cleanup_cache(REPORT_CACHE, clock),
                 report_lookup(_cleanup_cache(REPORT_CACHE, clock), report_id))
    /\ UNCHANGED <<nz, cl, pl, unitVars, clock, next_id, threads>>

\* time passes
Tick ==
    /\ clock + ClockStep <= MaxClock
    /\ clock' = clock + ClockStep
    /\ UNCHANGED <<nz, cl, pl, unitVars, REPORT_CACHE, next_id, last, threads>>

(***************************************************************************)
(* router.py: the handlers as the server runs them. review is a coroutine  *)
(* of the event loop; report_html and report_pdf are plain functions, run  *)
(* in worker threads. The interpreter may switch threads between any two   *)
(* steps of _cleanup_cache.                                                *)
(***************************************************************************)
ThreadIds == {"loop", "w1"}

HandlersOf(t) == IF t = "loop" THEN {"review"} ELSE {"report_html", "report_pdf"}

SweepRequests == {R_OK_PY, R_NO_FILE}

ThreadIdle ==
    [pc |-> "idle", op |-> None, report_id |-> 0, now |-> 0, keys |-> <<>>,
     i |-> 1, status |-> 0, raised |-> None]

\* a request arrives and its handler is entered
Begin(t) ==
    /\ threads[t].pc = "idle"
    /\ \E op \in HandlersOf(t), rid \in ReportIds :
          threads' = [threads EXCEPT ![t] =
                         [ThreadIdle EXCEPT !.pc = "now", !.op = op,
                                            !.report_id = rid]]
    /\ UNCHANGED <<nz, cl, pl, unitVars, REPORT_CACHE, clock, next_id, last>>

\* now = time.time()
SweepNow(t) ==
    /\ threads[t].pc = "now"
    /\ threads' = [threads EXCEPT ![t].now = clock, ![t].pc = "keys"]
    /\ UNCHANGED <<nz, cl, pl, unitVars, REPORT_CACHE, clock, next_id, last>>

\* list(REPORT_CACHE.keys())
SweepKeys(t) ==
    /\ threads[t].pc = "keys"
    /\ threads' = [threads EXCEPT ![t].keys = DictKeyList(REPORT_CACHE),
                                  ![t].i = 1, ![t].pc = "test"]
    /\ UNCHANGED <<nz, cl, pl, unitVars, REPORT_CACHE, clock, next_id, last>>

\* if now - REPORT_CACHE[k]["created"] > REPORT_TTL_SECONDS, for the next k;
\* the subscript raises KeyError when k is no longer in the dict, and nothing
\* in the handler catches it
SweepTest(t) ==
    /\ threads[t].pc = "test"
    /\ LET th == threads[t]
           k == th.keys[th.i]
       IN  threads' =
              IF th.i > Len(th.keys)
              THEN [threads EXCEPT ![t].pc = "body"]
              ELSE IF ~DictHas(REPORT_CACHE, k)
              THEN [threads EXCEPT ![t].pc = "idle", ![t].status = 500,
                                   ![t].raised = "KeyError"]
              ELSE IF th.now - DictGet(REPORT_CACHE, k).created > REPORT_TTL_SECONDS
              THEN [threads EXCEPT ![t].pc = "pop"]
              ELSE [threads EXCEPT ![t].i = th.i + 1]
    /\ UNCHANGED <<nz, cl, pl, unitVars, REPORT_CACHE, clock, next_id, last>>

\* REPORT_CACHE.pop(k, None)
SweepPop(t) ==
    /\ threads[t].pc = "pop"
    /\ REPORT_CACHE' = DictPop(REPORT_CACHE, threads[t].keys[threads[t].i])
    /\ threads' = [threads EXCEPT ![t].i = threads[t].i + 1, ![t].pc = "test"]
    /\ UNCHANGED <<nz, cl, pl, unitVars, clock, next_id, last>>

ReviewBodyEnd(t, out, report_id) ==
    /\ out.status = 200 => next_id < MaxReports
    /\ IF out.status = 200
       THEN /\ REPORT_CACHE' = cache_insert(REPORT_CACHE, report_id, clock,
                                            out.rr, out.meta)
            /\ next_id' = report_id
       ELSE UNCHANGED <<REPORT_CACHE, next_id>>
    /\ threads' = [threads EXCEPT ![t].pc = "idle", ![t].status = out.status,
                                  ![t].raised = out.unhandled]

\* the rest of review(): the pipeline, then the insert
ReviewBody(t) ==
    /\ threads[t].pc = "body"
    /\ threads[t].op = "review"
    /\ \E req \in SweepRequests : ReviewBodyEnd(t, review_pipeline(req), next_id + 1)
    /\ UNCHANGED <<nz, cl, pl, unitVars, clock, last>>

\* the rest of report_html() and report_pdf(): the lookup
ReportBody(t) ==
    /\ threads[t].pc = "body"
    /\ threads[t].op \in {"report_html", "report_pdf"}
    /\ threads' = [threads EXCEPT
                      ![t].pc = "idle",
                      ![t].status = report_lookup(REPORT_CACHE, threads[t].report_id).status]
    /\ UNCHANGED <<nz, cl, pl, unitVars, REPORT_CACHE, clock, next_id, last>>

\* time passes while handlers run
SweepTick ==
    /\ threads # <<>>
    /\ clock + ClockStep <= MaxClock
    /\ clock' = clock + ClockStep
    /\ UNCHANGED <<nz, cl, pl, unitVars, REPORT_CACHE, next_id, last, threads>>

(***************************************************************************)
(* utils/content_filter.py on its own: one mapping of decoded files,       *)
(* filtered, and the result filtered again                                 *)
(***************************************************************************)
MaxFiles == 2

\* s * n
RECURSIVE Repeat(_, _)
Repeat(s, n) ==
    IF n = 0 THEN ""
    ELSE IF n % 2 = 1 THEN s \o Repeat(s, n - 1)
    ELSE Repeat(s \o s, n \div 2)

PADDED == "  x = 1\n"

\* over the budget, with white space where the cut falls
HUGE_GAP == " " \o Repeat("x", MAX_FILE_CHARS - 1) \o " \n" \o "tail"

FilterPaths ==
    {<<"app.py">>, <<".", "app.py">>, <<".github", "ci.yml">>,
     <<"Node_Modules", "x.js">>, <<"node_modules", "x.js">>,
     <<"src", "node_modules", "x.js">>}

FilterTexts == {PY_SOURCE, BLANK, PADDED, HUGE_GAP}

\* dict[path -> decoded text] of at most max files, keys distinct
RECURSIVE FileMaps(_)
FileMaps(max) ==
    IF max = 0 THEN {<<>>}
    ELSE LET shorter == FileMaps(max - 1)
         IN  shorter \cup
             {Append(files, <<p, text>>) :
                 files \in {f \in shorter : Len(f) = max - 1},
                 p \in FilterPaths, text \in FilterTexts}

FlInit ==
    fl \in {[pc |-> "in", files |-> files, once |-> <<>>, twice |-> <<>>] :
                files \in {f \in FileMaps(MaxFiles) :
                              \A i, j \in DOMAIN f : f[i][1] = f[j][1] => i = j}}

\* files_for_review = filter_files_for_review(text_files)
Filter ==
    /\ fl.pc = "in"
    /\ fl' = [fl EXCEPT !.pc = "once", !.once = filter_files_for_review(fl.files)]
    /\ UNCHANGED <<nz, cl, pl, dl, rv, cacheVars>>

\* the same function applied to its own result
FilterAgain ==
    /\ fl.pc = "once"
    /\ fl' = [fl EXCEPT !.pc = "twice", !.twice = filter_files_for_review(fl.once)]
    /\ UNCHANGED <<nz, cl, pl, dl, rv, cacheVars>>

(***************************************************************************)
(* utils/language_detect.py on its own: the keys of one mapping of files,  *)
(* scored, and scored once more                                            *)
(***************************************************************************)
MaxPaths == 3

DetectPaths ==
    {<<"app.py">>, <<"x.js">>, <<"package.json">>, <<"solution.xml">>,
     <<"logo.png">>, <<"Workflows", "flow.json">>,
     <<"sol", "Workflows", "flow.json">>, <<"sol", "CanvasApps", "app.msapp">>}

\* files.keys() of a dict of at most max files, in insertion order
RECURSIVE PathLists(_)
PathLists(max) ==
    IF max = 0 THEN {<<>>}
    ELSE LET shorter == PathLists(max - 1)
         IN  shorter \cup
             {Append(keys, p) :
                 keys \in {k \in shorter : Len(k) = max - 1}, p \in DetectPaths}

\* the dict with these keys; detect_languages reads no value
FilesOf(keys) == [i \in DOMAIN keys |-> <<keys[i], PY_SOURCE>>]

DlInit ==
    dl \in {[pc |-> "in", files |-> FilesOf(keys), tags |-> <<>>, again |-> <<>>] :
                keys \in {k \in PathLists(MaxPaths) :
                             \A i, j \in DOMAIN k : k[i] = k[j] => i = j}}

\* languages = detect_languages(text_files)
Detect ==
    /\ dl.pc = "in"
    /\ dl' = [dl EXCEPT !.pc = "once", !.tags = detect_languages(dl.files)]
    /\ UNCHANGED <<nz, cl, pl, fl, rv, cacheVars>>

\* a second call on the same mapping
DetectAgain ==
    /\ dl.pc = "once"
    /\ dl' = [dl EXCEPT !.pc = "twice", !.again = detect_languages(dl.files)]
    /\ UNCHANGED <<nz, cl, pl, fl, rv, cacheVars>>

(***************************************************************************)
(* reviewers/python_ruff.py and reviewers/canvas_msapp.py on their own:    *)
(* one call of a reviewer and what it returns or raises                    *)
(***************************************************************************)
\* a finding on a file of the mapping under review
F_LOCAL == Finding("S105", "Possible hardcoded password", <<"app.py">>, 1)

\* what json.loads(stdout) can be given
RvStdouts ==
    {NoStdout, Stdout("not json", <<>>), Stdout("json object", <<>>)}
    \cup {Stdout("json list", findings) :
             findings \in {<<>>, <<F_LOCAL>>, <<F_S105>>, <<F_E702, F_E702>>,
                           <<F_LOCAL, F_E702>>,
                           <<Finding("SIM102", "Use a single if statement", <<"app.py">>, 2)>>,
                           <<Finding("F401", "os imported but unused", <<"app.py">>, 1),
                             Finding("W291", "Trailing whitespace", <<"app.py">>, 4),
                             Finding("B006", "Mutable default argument", <<"app.py">>, 6)>>,
                           <<Finding("C901", "f is too complex", <<"app.py">>, 2),
                             Finding("PLR0913", "Too many arguments", <<"app.py">>, 2),
                             Finding("UP006", "Use list instead of List", <<"app.py">>, 3)>>}}

\* subprocess.run raises (python not found, TimeoutExpired); python runs but
\* has no ruff module, which exits with code 1 and an empty stdout; or ruff
\* runs and exits with code 0, 1 or 2
RvRuffRuns ==
    {RuffRun("raises", 0, NoStdout), RuffRun("no module", 1, NoStdout)}
    \cup {RuffRun("ok", returncode, stdout) :
             returncode \in {0, 1, 2}, stdout \in RvStdouts}

RvFiles ==
    {<<>>, FilesOf(<<<<"app.py">>>>), FilesOf(<<<<"app.py">>, <<"lib", "util.py">>>>)}

\* the same formula in controls[0] of a second screen, further down the file
HIT_PATCH_BELOW == [HIT_PATCH EXCEPT !.line = 12]

\* container bytes: empty or without the PK magic, PK magic but no ZIP,
\* a ZIP without artifacts, with artifacts but no formula, with formulas
RvMsappBytes ==
    {MsappData(FALSE, FALSE, <<>>, <<>>), MsappData(TRUE, FALSE, <<>>, <<>>),
     MsappData(TRUE, TRUE, <<>>, <<>>),
     MsappData(TRUE, TRUE, <<"Src/App.json">>, <<>>),
     MsappData(TRUE, TRUE, <<"Src/App.json">>, <<HIT_PATCH>>),
     MsappData(TRUE, TRUE, <<"Src/App.json">>, <<HIT_PATCH, HIT_PATCH>>),
     MsappData(TRUE, TRUE, <<"Src/App.json">>, <<HIT_PATCH, HIT_PATCH_BELOW>>)}

RvMsappNames == {<<"CanvasApps", "app.msapp">>, <<"app.msapp">>}

\* a file over the per-file budget of the fallback reviewer: five of them
\* do not fit one chunk
LONG_SOURCE == Repeat("x", max_chars_per_file + 1)

RvLLMFiles ==
    {<<>>,
     << <<<<"src", "app.js">>, JS_SOURCE>> >>,
     << <<<<"e.js">>, LONG_SOURCE>>, <<<<"a.js">>, LONG_SOURCE>>,
        <<<<"c.js">>, LONG_SOURCE>>, <<<<"b.js">>, LONG_SOURCE>>,
        <<<<"d.js">>, LONG_SOURCE>> >>}

\* what one completion request does: it raises, it answers in prose, with an
\* opening brace only, with braces around something that is not JSON, or
\* with one of the JSON documents
RvResponses ==
    {Response(TRUE, ""),
     Response(FALSE, "I could not review these files."),
     Response(FALSE, "{\"issues\": ["),
     Response(FALSE, "Result: {issues: none}"),
     Response(FALSE, JSON_EMPTY),
     Response(FALSE, "Here are the findings:\n" \o JSON_UNUSED \o "\nDone."),
     Response(FALSE, JSON_BARE),
     Response(FALSE, JSON_LINES),
     Response(FALSE, JSON_NEGATIVE),
     Response(FALSE, JSON_NUMBER_REMEDIATION),
     Response(FALSE, JSON_NUMBER_SEVERITY),
     Response(FALSE, JSON_NOT_A_LIST)}

RvLLMRuns == {<<first, second>> : first \in RvResponses, second \in RvResponses}

NoResult == [raised |-> None, issues |-> <<>>]

RvCall(reviewer, files, ruff, msapp_name, msapp_bytes, llm) ==
    [pc |-> "in", reviewer |-> reviewer, files |-> files, ruff |-> ruff,
     msapp_name |-> msapp_name, msapp_bytes |-> msapp_bytes, llm |-> llm,
     res |-> NoResult]

RvInit ==
    rv \in {RvCall("python_reviewer", files, ruff, <<>>,
                   MsappData(FALSE, FALSE, <<>>, <<>>), NoFindings) :
                files \in RvFiles, ruff \in RvRuffRuns}
           \cup {RvCall("canvas_msapp_reviewer", <<>>, NoRuff, name, bytes, NoFindings) :
                    name \in RvMsappNames, bytes \in RvMsappBytes}
           \cup {RvCall("llm_reviewer", files, NoRuff, <<>>,
                        MsappData(FALSE, FALSE, <<>>, <<>>), llm) :
                    files \in RvLLMFiles, llm \in RvLLMRuns}

\* python_reviewer.review(files_for_review, "python")
RuffReview ==
    /\ rv.pc = "in"
    /\ rv.reviewer = "python_reviewer"
    /\ rv' = [rv EXCEPT !.pc = "done",
                        !.res = PythonRuffReviewer_review(rv.files, "python", rv.ruff)]
    /\ UNCHANGED <<nz, cl, pl, fl, dl, cacheVars>>

\* canvas_msapp_reviewer.review_msapp(msapp_name, msapp_bytes)
MsappReview ==
    /\ rv.pc = "in"
    /\ rv.reviewer = "canvas_msapp_reviewer"
    /\ rv' = [rv EXCEPT !.pc = "done",
                        !.res = CanvasMsappReviewer_review_msapp(rv.msapp_name,
                                                                 rv.msapp_bytes)]
    /\ UNCHANGED <<nz, cl, pl, fl, dl, cacheVars>>

\* llm_reviewer.review(files_for_review, "javascript")
LLMReview ==
    /\ rv.pc = "in"
    /\ rv.reviewer = "llm_reviewer"
    /\ rv' = [rv EXCEPT !.pc = "done",
                        !.res = LLMFallbackReviewer_review(rv.files, "javascript", rv.llm)]
    /\ UNCHANGED <<nz, cl, pl, fl, dl, cacheVars>>

(***************************************************************************)
(* Specifications                                                          *)
(***************************************************************************)
PlIdle == [pc |-> "idle"]

FlIdle == [pc |-> "idle"]

DlIdle == [pc |-> "idle"]

RvIdle == [pc |-> "idle"]

UnitIdle == fl = FlIdle /\ dl = DlIdle /\ rv = RvIdle

CacheIdle ==
    /\ REPORT_CACHE = <<>>
    /\ clock = 0
    /\ next_id = 0
    /\ last = [op |-> "none"]
    /\ threads = <<>>

InitNormalize == NzInit /\ cl = ClIdle /\ pl = PlIdle /\ UnitIdle /\ CacheIdle

NextNormalize == Normalize \/ NormalizeAgain

SpecNormalize == InitNormalize /\ [][NextNormalize]_vars

InitChecklist == ClInit /\ nz = NzIdle /\ pl = PlIdle /\ UnitIdle /\ CacheIdle

NextChecklist == MakeChecklist \/ FlipRow

SpecChecklist == InitChecklist /\ [][NextChecklist]_vars

InitPipeline == PlInit /\ nz = NzIdle /\ cl = ClIdle /\ UnitIdle /\ CacheIdle

NextPipeline == RunPipeline

SpecPipeline == InitPipeline /\ [][NextPipeline]_vars

InitFilter == FlInit /\ nz = NzIdle /\ cl = ClIdle /\ pl = PlIdle /\ dl = DlIdle /\ rv = RvIdle /\ CacheIdle

NextFilter == Filter \/ FilterAgain

SpecFilter == InitFilter /\ [][NextFilter]_vars

InitDetect == DlInit /\ nz = NzIdle /\ cl = ClIdle /\ pl = PlIdle /\ fl = FlIdle /\ rv = RvIdle /\ CacheIdle

NextDetect == Detect \/ DetectAgain

SpecDetect == InitDetect /\ [][NextDetect]_vars

InitReviewers == RvInit /\ nz = NzIdle /\ cl = ClIdle /\ pl = PlIdle /\ fl = FlIdle /\ dl = DlIdle /\ CacheIdle

NextReviewers == RuffReview \/ MsappReview \/ LLMReview

SpecReviewers == InitReviewers /\ [][NextReviewers]_vars

Init == nz = NzIdle /\ cl = ClIdle /\ pl = PlIdle /\ UnitIdle /\ CacheIdle

Next ==
    \/ \E req \in CacheRequests : Review(req)
    \/ \E report_id \in ReportIds : ReportHtml(report_id)
    \/ \E report_id \in ReportIds : ReportPdf(report_id)
    \/ Tick

Spec == Init /\ [][Next]_vars

InitSweep ==
    /\ nz = NzIdle /\ cl = ClIdle /\ pl = PlIdle /\ UnitIdle
    /\ REPORT_CACHE = <<>>
    /\ clock = 0
    /\ next_id = 0
    /\ last = [op |-> "none"]
    /\ threads = [t \in ThreadIds |-> ThreadIdle]

NextSweep ==
    \/ \E t \in ThreadIds : Begin(t)
    \/ \E t \in ThreadIds : SweepNow(t)
    \/ \E t \in ThreadIds : SweepKeys(t)
    \/ \E t \in ThreadIds : SweepTest(t)
    \/ \E t \in ThreadIds : SweepPop(t)
    \/ \E t \in ThreadIds : ReviewBody(t)
    \/ \E t \in ThreadIds : ReportBody(t)
    \/ SweepTick

SpecSweep == InitSweep /\ [][NextSweep]_vars

(***************************************************************************)
(* Claims                                                                  *)
(***************************************************************************)

\* C1: the overall verdict is PASS if and only if every row of the checklist
\* is PASS, and after any single row is changed to FAIL the verdict is FAIL.
C1_OverallPassIffAllRowsPass ==
    /\ cl.pc \in {"made", "flipped"} =>
          (cl.overall = "PASS" <=>
              \A r \in DOMAIN cl.rows : cl.rows[r].result = "PASS")
    /\ cl.pc = "flipped" => cl.overall = "FAIL"

\* a checklist that was all PASS, with one row changed to FAIL
C1_Witness ==
    /\ cl.pc = "flipped"
    /\ cl.prev_overall = "PASS"
    /\ cl.overall = "FAIL"
    /\ \A r \in DOMAIN cl.rows : (cl.rows[r].result = "FAIL") <=> (r = cl.flipped)

IssuesInRow(row) ==
    {i \in DOMAIN cl.issues :
        _bucket_for_issue(cl.issues[i], cl.languages) = row.category}

\* C2: every row of make_checklist is FAIL if and only if at least one issue
\* is bucketed into it, and the Security row is FAIL whenever it holds an
\* issue of severity HIGH or CRITICAL.
C2_RowFailIffBucketNonEmpty ==
    cl.pc = "made" =>
        \A r \in DOMAIN cl.rows :
            /\ (cl.rows[r].result = "FAIL") <=> (IssuesInRow(cl.rows[r]) # {})
            /\ cl.rows[r].result \in {"PASS", "FAIL"}
            /\ (cl.rows[r].category = "Security"
                /\ \E i \in IssuesInRow(cl.rows[r]) :
                      Upper(cl.issues[i].severity) \in {"HIGH", "CRITICAL"})
               => cl.rows[r].result = "FAIL"

\* one LOW issue in Security: the row fails on the count alone
C2_Witness ==
    /\ cl.pc = "made"
    /\ Len(cl.issues) = 1
    /\ cl.issues[1].severity = "LOW"
    /\ \E r \in DOMAIN cl.rows :
          /\ cl.rows[r].category = "Security"
          /\ IssuesInRow(cl.rows[r]) = {1}
          /\ cl.rows[r].result = "FAIL"
    /\ \E r \in DOMAIN cl.rows :
          cl.rows[r].category # "Security" /\ cl.rows[r].result = "PASS"

IssueKey(x) == <<x.rule_id, x.file_path, x.line_start, x.title>>

\* C3: the issue list of the ReviewResult of a completed /review run never
\* holds two issues with the same (rule_id, file_path, line_start, title).
C3_NoDuplicateIssueKeys ==
    (pl.pc = "done" /\ pl.out.status = 200) =>
        \A i, j \in DOMAIN pl.out.rr.issues :
            i # j => IssueKey(pl.out.rr.issues[i]) # IssueKey(pl.out.rr.issues[j])

\* C4: when a reviewer raises during a /review run, every reviewer selected
\* for the run is still executed and the run completes with a ReviewResult.
C4_ReviewerFailureDoesNotAbort ==
    (pl.pc = "done" /\ pl.out.raised_by # None) =>
        /\ pl.out.ran = pl.out.selected
        /\ pl.out.status = 200

ArchiveBytes(req) ==
    IF req.source_type = "zip" THEN req.zip_file.bytes ELSE req.fetch.bytes

\* the request passes input validation and its bytes are no ZIP archive
CorruptArchive(req) ==
    /\ ReadSource(req).error = None
    /\ ArchiveBytes(req).len = "ok"
    /\ ~ArchiveBytes(req).zip

\* C8: a /review request whose bytes are not a valid archive ends in the
\* error page with a message and no unhandled exception, and neither
\* detection nor review takes place.
C8_CorruptArchiveIsUserError ==
    (pl.pc = "done" /\ CorruptArchive(pl.req)) =>
        /\ pl.out.status = 400
        /\ pl.out.error # None
        /\ pl.out.unhandled = None
        /\ pl.out.languages = <<>>
        /\ pl.out.ran = <<>>

\* C5: no sweep fails, whatever the interleaving of the sweeps with each
\* other and with the reads and writes of the cache.
C5_NoSweepFails ==
    threads # <<>> => \A t \in ThreadIds : threads[t].raised # "KeyError"

C7_ReviewInsertsOneOrNothing ==
    last.op = "review" =>
        /\ last.status \in {200, 400, 500}
        /\ last.status = 200 =>
              /\ DictKeys(REPORT_CACHE) \ last.keys_before = {last.report_id}
              /\ last.report_id \notin last.issued_before
              /\ DictGet(REPORT_CACHE, last.report_id).result = last.result
        /\ last.status # 200 =>
              DictKeys(REPORT_CACHE) \subseteq last.keys_before

\* a second report is cached next to an earlier one
C7_Witness ==
    /\ last.op = "review"
    /\ last.status = 200
    /\ last.keys_before # {}
    /\ DictKeys(REPORT_CACHE) = last.keys_before \cup {last.report_id}
    /\ last.report_id \notin last.keys_before

\* some segment of the path is, lower-cased, a name of the denylist
HasExcludedSegment(path) ==
    \E i \in DOMAIN path : Lower(path[i]) \in EXCLUDED_DIRS

\* C11: filter_files_for_review drops every entry whose path has, at any
\* depth and at the root too, a segment equal to a denylist name whatever its
\* case: every output path comes from an input path without such a segment,
\* and no output path has such a segment.
C11_ExcludedFoldersAreDropped ==
    fl.pc # "in" =>
        /\ \A p \in DictKeys(fl.once) : ~HasExcludedSegment(p)
        /\ DictKeys(fl.once) \subseteq
               {_norm_path(fl.files[i][1]) :
                   i \in {j \in DOMAIN fl.files : ~HasExcludedSegment(fl.files[j][1])}}

\* C12: the content filter is idempotent: filtering its own output returns
\* that output unchanged, paths, order and texts, also when a text was cut to
\* the character budget and the marker appended.
C12_FilterIdempotent ==
    fl.pc = "twice" => fl.twice = fl.once

\* a filtered mapping holding a text that was cut, filtered again
C12_Witness ==
    /\ fl.pc = "twice"
    /\ \E i \in DOMAIN fl.once :
           /\ Len(fl.once[i][2]) = MAX_FILE_CHARS + Len(TRUNCATED_MARK)
           /\ \E j \in DOMAIN fl.files : fl.files[j][2] = HUGE_GAP

\* the score increments of a mapping's paths in loop order, an increment of
\* "javascript/typescript" counted for each of the two tags
TagIncrements(files) ==
    LET perFile[i \in 0..Len(files)] ==
            IF i = 0 THEN <<>> ELSE perFile[i - 1] \o PathScores(files[i][1])
        incs == perFile[Len(files)]
        split[i \in 0..Len(incs)] ==
            IF i = 0 THEN <<>>
            ELSE IF incs[i][1] = "javascript/typescript"
                 THEN split[i - 1] \o <<<<"javascript", incs[i][2]>>, <<"typescript", incs[i][2]>>>>
                 ELSE Append(split[i - 1], incs[i])
    IN  split[Len(incs)]

\* the total a tag collects over the increments
TagScore(incs, tag) ==
    LET sum[i \in 0..Len(incs)] ==
            IF i = 0 THEN 0
            ELSE sum[i - 1] + (IF incs[i][1] = tag THEN incs[i][2] ELSE 0)
    IN  sum[Len(incs)]

\* where a tag is first scored
FirstSeen(incs, tag) ==
    CHOOSE i \in DOMAIN incs :
        incs[i][1] = tag /\ \A j \in DOMAIN incs : incs[j][1] = tag => i <= j

\* tags holds each scored tag once, by descending total, equal totals in
\* order of first occurrence
RankedByScore(tags, incs) ==
    /\ \A i, j \in DOMAIN tags : tags[i] = tags[j] => i = j
    /\ \A i \in DOMAIN tags : TagScore(incs, tags[i]) > 0
    /\ \A k \in DOMAIN incs : \E i \in DOMAIN tags : tags[i] = incs[k][1]
    /\ \A i, j \in DOMAIN tags :
           i < j =>
              \/ TagScore(incs, tags[i]) > TagScore(incs, tags[j])
              \/ /\ TagScore(incs, tags[i]) = TagScore(incs, tags[j])
                 /\ FirstSeen(incs, tags[i]) <= FirstSeen(incs, tags[j])

\* some tags tie and some do not
HasTieAndGap(tags, incs) ==
    /\ \E i, j \in DOMAIN tags :
           i < j /\ TagScore(incs, tags[i]) = TagScore(incs, tags[j])
    /\ \E i, j \in DOMAIN tags : TagScore(incs, tags[i]) > TagScore(incs, tags[j])

\* C13: detect_languages is deterministic and returns the tags by descending
\* total score (8 and 4 for structure, 4 for a manifest, 1 for an extension),
\* a tag of score zero left out and equal scores in order of first
\* occurrence; solution.xml alone scores powerplatform above what app.py
\* alone scores python.
C13_TagsByDescendingScore ==
    /\ dl.pc \in {"once", "twice"} => RankedByScore(dl.tags, TagIncrements(dl.files))
    /\ dl.pc = "twice" => dl.again = dl.tags
    /\ (dl.pc = "once" /\ dl.files = FilesOf(<<<<"solution.xml">>>>)) =>
          /\ dl.tags[1] = "powerplatform"
          /\ TagScore(TagIncrements(dl.files), "powerplatform")
                 > TagScore(TagIncrements(FilesOf(<<<<"app.py">>>>)), "python")

\* three tags ranked, two of them with the same score
C13_Witness ==
    /\ dl.pc = "twice"
    /\ Len(dl.tags) >= 3
    /\ HasTieAndGap(dl.tags, TagIncrements(dl.files))

\* the run's tags, and the reviewers chosen from them, are those of tags
DetectedFrom(out, req, tags) ==
    /\ out.languages = tags
    /\ out.selected = ReviewerCalls(tags, out.msapps, req.api_key)

\* C14: in a /review run the detector only sees the files that survived the
\* content filter: the detected tags are those of the filtered mapping, so a
\* file the filter drops adds no tag and selects no reviewer.
C14_DetectorSeesFilteredFiles ==
    pl.pc = "done" => DetectedFrom(pl.out, pl.req, detect_languages(pl.out.files_for_review))

\* the lint tool could not be invoked, timed out, or gave output that is not
\* the JSON list of findings
ToolFailed(run) ==
    \/ run.exec \in {"raises", "no module"}
    \/ run.stdout.kind \in {"not json", "json object"}

RuffDiagnosticIds == {"RUFF-EXEC", "RUFF-RUN", "RUFF-JSON"}

\* C15: PythonRuffReviewer.review fails soft: when the tool cannot be
\* invoked, times out or returns output that is not the expected JSON, the
\* call does not raise and returns exactly one diagnostic Issue.
C15_RuffFailsSoft ==
    (rv.pc = "done" /\ rv.reviewer = "python_reviewer" /\ ToolFailed(rv.ruff)) =>
        /\ rv.res.raised = None
        /\ Len(rv.res.issues) = 1
        /\ rv.res.issues[1].rule_id \in RuffDiagnosticIds

\* C16: the lint reviewer analyses the mapping it is given: every finding
\* that is not a diagnostic refers to a path that is a key of files.
C16_FindingsReferToGivenFiles ==
    (rv.pc = "done" /\ rv.reviewer = "python_reviewer") =>
        \A i \in DOMAIN rv.res.issues :
            rv.res.issues[i].rule_id \notin RuffDiagnosticIds =>
                rv.res.issues[i].file_path \in DictKeys(rv.files)

\* C17: for container bytes that cannot be opened (empty, no PK magic, or
\* PK magic but not a readable ZIP) review_msapp does not raise and returns
\* exactly one Issue, MEDIUM / Maintainability, rule MSAPP-PARSE.
C17_UnopenableContainerOneIssue ==
    (rv.pc = "done" /\ rv.reviewer = "canvas_msapp_reviewer"
        /\ (~rv.msapp_bytes.pk \/ ~rv.msapp_bytes.zip)) =>
        /\ rv.res.raised = None
        /\ Len(rv.res.issues) = 1
        /\ rv.res.issues[1].severity = "MEDIUM"
        /\ rv.res.issues[1].category = "Maintainability"
        /\ rv.res.issues[1].rule_id = "MSAPP-PARSE"

\* the paths of the decoded entries whose extension is .msapp
MsappEntries(entries) ==
    {entries[i][1] :
        i \in {j \in DOMAIN entries : SplitExt(Lower(Last(entries[j][1]))) = ".msapp"}}

\* C18: in a /review run the containers extracted are exactly the decoded
\* entries whose extension is .msapp, and when powerplatform is detected
\* review_msapp is selected once for every such entry.
C18_ContainersAreMsappEntries ==
    (pl.pc = "done" /\ pl.out.decoded) =>
        /\ DictKeys(pl.out.msapps) = MsappEntries(pl.out.entries)
        /\ InSeq("powerplatform", pl.out.languages) =>
              Len(SelectSeq(pl.out.selected,
                            LAMBDA call : call.reviewer = "canvas_msapp_reviewer"))
                  = Cardinality(MsappEntries(pl.out.entries))

\* C19: every Issue of a ReviewResult has a non-empty file_path, a non-empty
\* remediation, a severity among LOW, MEDIUM, HIGH, CRITICAL and a confidence
\* among High, Medium, Low.
C19_IssuesAreWellFormed ==
    (pl.pc = "done" /\ pl.out.status = 200) =>
        \A i \in DOMAIN pl.out.rr.issues :
            /\ pl.out.rr.issues[i].file_path # <<>>
            /\ pl.out.rr.issues[i].remediation # ""
            /\ pl.out.rr.issues[i].severity \in {"LOW", "MEDIUM", "HIGH", "CRITICAL"}
            /\ pl.out.rr.issues[i].confidence \in {"High", "Medium", "Low"}

SeverityRank(severity) ==
    CASE severity = "CRITICAL" -> 4
      [] severity = "HIGH" -> 3
      [] severity = "MEDIUM" -> 2
      [] severity = "LOW" -> 1
      [] OTHER -> 0

\* a comes no later than b in the display order
DisplayLeq(a, b) ==
    \/ SeverityRank(a.severity) > SeverityRank(b.severity)
    \/ /\ SeverityRank(a.severity) = SeverityRank(b.severity)
       /\ \/ (a.category # b.category /\ StrLeq(a.category, b.category))
          \/ /\ a.category = b.category
             /\ \/ (a.file_path # b.file_path
                        /\ StrLeq(JoinPath(a.file_path), JoinPath(b.file_path)))
                \/ (a.file_path = b.file_path /\ a.line_start <= b.line_start)

\* C20: the issue list of the ReviewResult handed to the report is sorted
\* by descending severity rank (CRITICAL > HIGH > MEDIUM > LOW), then by
\* category, then by file_path, then by line_start.
C20_IssuesInDisplayOrder ==
    (pl.pc = "done" /\ pl.out.status = 200) =>
        \A i, j \in DOMAIN pl.out.rr.issues :
            i < j => DisplayLeq(pl.out.rr.issues[i], pl.out.rr.issues[j])

\* the rule id carries a platform-governance prefix
HasGovernancePrefix(issue) ==
    LET rid == Upper(IF issue.rule_id = None THEN "" ELSE issue.rule_id)
    IN  StartsWith(rid, "PP-") \/ StartsWith(rid, "MSAPP-") \/ StartsWith(rid, "MDA-")

\* the bucket the category names among the rows chosen for the tags, whatever
\* its case, and Maintainability when it names none
CategoryBucket(issue, languages) ==
    LET defs == IF InSeq("powerplatform", languages)
                THEN PowerPlatformDefs ELSE GenericDefs
        named == {defs[r][1] : r \in {q \in DOMAIN defs :
                                         StripLower(defs[q][1]) = StripLower(issue.category)}}
    IN  IF named = {} THEN "Maintainability" ELSE CHOOSE b \in named : TRUE

\* C21: an issue whose rule_id carries no platform-governance prefix is
\* bucketed by its own category, compared case-insensitively, and falls to
\* Maintainability only when the category names no bucket; title and detail
\* do not change the bucket: two issues that differ only there share it.
C21_BucketFollowsCategory ==
    cl.pc = "made" =>
        /\ \A i \in DOMAIN cl.issues :
               ~HasGovernancePrefix(cl.issues[i]) =>
                   cl.buckets[i] = CategoryBucket(cl.issues[i], cl.languages)
        /\ \A i, j \in DOMAIN cl.issues :
               [cl.issues[i] EXCEPT !.title = "", !.detail = ""]
                   = [cl.issues[j] EXCEPT !.title = "", !.detail = ""]
               => cl.buckets[i] = cl.buckets[j]

\* the run was given this archive as a well-formed upload and produced a report
ReviewedArchive(archive) ==
    /\ pl.pc = "done"
    /\ pl.req.source_type = "zip"
    /\ pl.req.zip_file.bytes = Blob("ok", TRUE, archive)
    /\ pl.out.status = 200

\* the checklist row of a bucket has this result
RowResult(checklist, bucket, result) ==
    \E r \in DOMAIN checklist :
        checklist[r].category = bucket /\ checklist[r].result = result

\* the solution-metadata finding is there and lands in the governance row
MetadataIssueFailsGovernance(rr, languages) ==
    /\ \E i \in DOMAIN rr.issues :
           /\ rr.issues[i].rule_id = "PP-SOLUTION-METADATA"
           /\ rr.issues[i].category = "Maintainability"
           /\ _bucket_for_issue(rr.issues[i], languages) = "ALM & Governance"
    /\ RowResult(rr.checklist, "ALM & Governance", "FAIL")
    /\ rr.overall = "FAIL"

SharesOneTopLevel(E) ==
    /\ E # <<>>
    /\ \E root \in Seg :
          \A i \in DOMAIN E : Len(E[i][1]) >= 2 /\ E[i][1][1] = root

WithoutTopLevel(E) == [i \in DOMAIN E |-> <<Tail(E[i][1]), E[i][2]>>]

\* C9: normalisation, as /review applies it, returns the entries unchanged
\* unless all of them share exactly one top-level folder, and then strips
\* exactly that folder from every path.
C9_NormalizeStripsOnlySharedFolder ==
    nz.pc \in {"once", "twice"} =>
        nz.once = IF SharesOneTopLevel(nz.E) THEN WithoutTopLevel(nz.E) ELSE nz.E

\* C10: normalising a normalised mapping changes nothing.
C10_NormalizeIdempotent ==
    nz.pc = "twice" => nz.twice = nz.once

\* the fallback reviewer was called and has returned or raised
LLMReviewed == rv.pc = "done" /\ rv.reviewer = "llm_reviewer"

\* the request fails, or its answer holds no JSON object, or one that does
\* not parse
ChunkFails(response) ==
    \/ response.raises
    \/ _extract_first_json_object(response.content) = ""
    \/ ~json_loads(_extract_first_json_object(response.content)).ok

\* a JSON object whose text fields are strings or absent
WellFormedRecord(raw) ==
    /\ raw.is_dict
    /\ \A k \in RawKeys \ {"line_start", "line", "start_line", "line_end", "end_line"} :
          raw.get[k].kind \in {"null", "str"}

\* the answer parses to a list of well-formed records
AnswersWell(response) ==
    /\ ~ChunkFails(response)
    /\ json_loads(_extract_first_json_object(response.content)).list
    /\ LET raws == json_loads(_extract_first_json_object(response.content)).issues
       IN  \A r \in DOMAIN raws : WellFormedRecord(raws[r])

\* chunk i alone fails: review returns what it returns when that chunk
\* answers with an empty list
IsolatedFailure(files, llm, res, chunks) ==
    \A i \in 1..chunks :
        (ChunkFails(llm[i]) /\ \A j \in 1..chunks : j # i => AnswersWell(llm[j]))
        => /\ res.raised = None
           /\ res = LLMFallbackReviewer_review(files, "javascript",
                        [llm EXCEPT ![i] = Response(FALSE, JSON_EMPTY)])

\* C23: a failure confined to one chunk of LLMFallbackReviewer.review (a
\* failing model call, or a response that is malformed or does not parse)
\* makes that chunk contribute no issue and leaves the others alone: review
\* does not raise and returns the issues of every other chunk
C23_ChunkFailureIsIsolated ==
    LLMReviewed =>
        IsolatedFailure(rv.files, rv.llm, rv.res, Len(_chunk_files(rv.files)))

\* the normalised issue of a record of the response, as review appends it
Appended(raw) ==
    LET n == _normalize_issue_dict(raw).norm
    IN  IF n.language = "" THEN [n EXCEPT !.language = "javascript"] ELSE n

\* every answer parses to a list: review does not raise, and each
\* well-formed record is among the issues returned
KeepsWellFormed(llm, res, chunks) ==
    (\A i \in 1..chunks :
        ~ChunkFails(llm[i]) /\ json_loads(_extract_first_json_object(llm[i].content)).list)
    => /\ res.raised = None
       /\ \A i \in 1..chunks :
             LET raws == json_loads(_extract_first_json_object(llm[i].content)).issues
             IN  \A r \in DOMAIN raws :
                    WellFormedRecord(raws[r])
                    => \E k \in DOMAIN res.issues :
                          _dedupe_key(res.issues[k]) = _dedupe_key(Appended(raws[r]))

\* C24: a malformed record of a model response (an element that is not an
\* object, an object with a field of an unexpected type) is dropped without
\* aborting the batch: the well-formed records of the same response and of
\* the other chunks are still returned
C24_MalformedRecordIsDropped ==
    LLMReviewed => KeepsWellFormed(rv.llm, rv.res, Len(_chunk_files(rv.files)))

\* the records of the answers of a call
RawsOf(llm) ==
    UNION {{json_loads(_extract_first_json_object(llm[i].content)).issues[r] :
               r \in DOMAIN json_loads(_extract_first_json_object(llm[i].content)).issues} :
           i \in DOMAIN llm}

NoneOf(raw, keys) == \A k \in keys : ~Truthy(raw.get[k])

\* the fields _normalize_issue_dict promises, for one well-formed record
NormalizedFields(raw) ==
    LET n == _normalize_issue_dict(raw)
        start == Or(raw.get["line_start"], Or(raw.get["line"], raw.get["start_line"]))
    IN  /\ n.raised = None
        /\ n.norm.remediation # ""
        /\ NoneOf(raw, {"remediation", "recommendation", "fix", "resolution"})
           => n.norm.remediation = _default_remediation(n.norm.category, n.norm.title)
        /\ NoneOf(raw, {"file_path", "file", "path", "filename"})
           => n.norm.file_path = <<"UNKNOWN">>
        /\ n.norm.line_start >= 1
        /\ (~Truthy(start) \/ ~int(start).ok) => n.norm.line_start = 1
        /\ n.norm.line_end >= n.norm.line_start
        /\ (int(Or(raw.get["line_end"], raw.get["end_line"])).ok
            /\ int(Or(raw.get["line_end"], raw.get["end_line"])).n < n.norm.line_start)
           => n.norm.line_end = n.norm.line_start

C26_OneIssuePerRuleLocationTitle ==
    (rv.pc = "done" /\ rv.reviewer = "canvas_msapp_reviewer" /\ rv.res.raised = None)
    => \A i, j \in DOMAIN rv.res.issues :
          (/\ rv.res.issues[i].rule_id = rv.res.issues[j].rule_id
           /\ rv.res.issues[i].file_path = rv.res.issues[j].file_path
           /\ rv.res.issues[i].title = rv.res.issues[j].title)
          => i = j

\* the category and severity the code families are documented to map to
FamilyMapping(code, category, severity) ==
    LET c == Upper(code)
        maintainability == HasPrefix(c, "C90") \/ HasPrefix(c, "PL") \/ HasPrefix(c, "SIM")
        security == HasPrefix(c, "S") /\ ~maintainability
        style == HasPrefix(c, "E") \/ HasPrefix(c, "W")
        reliability == HasPrefix(c, "F") \/ HasPrefix(c, "B")
    IN  /\ security => category = "Security" /\ severity = "HIGH"
        /\ style => category = "Style" /\ severity = "LOW"
        /\ reliability => category = "Reliability" /\ severity = "MEDIUM"
        /\ maintainability => category = "Maintainability"
        /\ ~(security \/ style \/ reliability \/ maintainability)
           => category = "Maintainability" /\ severity = "MEDIUM"
        /\ severity = "HIGH" <=> category = "Security"

\* C27: the lint reviewer maps every rule code to category and severity by
\* its code family: S to Security/HIGH, E and W to Style/LOW, F and B to
\* Reliability/MEDIUM, C90, PL and SIM to Maintainability, any other code to
\* Maintainability/MEDIUM; the severity is HIGH exactly when the category is
\* Security
C27_CategoryAndSeverityByFamily ==
    (/\ rv.pc = "done"
     /\ rv.reviewer = "python_reviewer"
     /\ rv.ruff.exec = "ok"
     /\ rv.ruff.stdout.kind = "json list")
    => \A i \in DOMAIN rv.ruff.stdout.findings :
          /\ i \in DOMAIN rv.res.issues
          /\ FamilyMapping(rv.ruff.stdout.findings[i].code,
                           rv.res.issues[i].category, rv.res.issues[i].severity)

\* the count a row reports in its notes: "<c> issue(s) found", or nothing
RowCount(row) == IF Len(row.notes) = 0 THEN 0 ELSE row.notes[1]

RECURSIVE SumRowCounts(_)
SumRowCounts(rows) ==
    IF rows = <<>> THEN 0 ELSE RowCount(Head(rows)) + SumRowCounts(Tail(rows))

\* every issue has its bucket in exactly one row, the rows count all the
\* issues, and the verdict is PASS for the empty list only
CountedOnce(issues, buckets, rows, overall) ==
    /\ \A i \in DOMAIN issues :
          Cardinality({r \in DOMAIN rows : rows[r].category = buckets[i]}) = 1
    /\ \A r \in DOMAIN rows :
          RowCount(rows[r]) = Cardinality({i \in DOMAIN issues : buckets[i] = rows[r].category})
    /\ SumRowCounts(rows) = Len(issues)
    /\ overall = "PASS" <=> issues = <<>>

\* C28: for every issue list and tag list, each issue is counted in exactly
\* one row of the checklist make_checklist returns: the row counts add up to
\* the number of issues, and overall is PASS iff there is no issue
C28_EveryIssueCountedInOneRow ==
    cl.pc = "made" => CountedOnce(cl.issues, cl.buckets, cl.rows, cl.overall)

\* two issues of different buckets were scored, one of them by its
\* governance prefix, and two issues of one bucket under the generic list
C28_Witness ==
    /\ cl.pc = "made"
    /\ Len(cl.issues) = 2
    /\ \/ /\ cl.buckets[1] = "ALM & Governance"
          /\ cl.buckets[2] = "Security"
          /\ SumRowCounts(cl.rows) = 2
       \/ /\ cl.languages = <<"python">>
          /\ cl.buckets[1] = "Style"
          /\ cl.buckets[2] = "Style"
          /\ \E r \in DOMAIN cl.rows :
                cl.rows[r].category = "Style" /\ RowCount(cl.rows[r]) = 2

\* out has as many entries as E, and every entry of E has its bytes in out
PreservesEntries(E, out) ==
    /\ Len(out) = Len(E)
    /\ \A i \in DOMAIN E : \E j \in DOMAIN out : out[j][2] = E[i][2]

\* C29: archive normalisation never loses or merges entries: for every
\* mapping E from distinct paths to bytes, normalize_zip_entries(E) has as
\* many entries as E and each entry keeps its bytes
C29_NormalizeKeepsEveryEntry ==
    nz.pc \in {"once", "twice"}
    => PreservesEntries(nz.E, nz.once) /\ PreservesEntries(nz.E, nz.zr_once)

\* one step from cache to after, taken at time now and leaving the request
\* record request: every entry is kept as it is or, when older than the TTL,
\* removed; an entry no older than the TTL is what a lookup of its id finds
\* afterwards, and what the report request for it has answered with
EntriesAreStable(cache, after, now, request) ==
    \A id \in DictKeys(cache) :
        LET item == DictGet(cache, id)
        IN  /\ DictHas(after, id) => DictGet(after, id) = item
            /\ ~DictHas(after, id) => now - item.created > REPORT_TTL_SECONDS
            /\ now - item.created <= REPORT_TTL_SECONDS
               => /\ report_lookup(after, id) = [status |-> 200, detail |-> None, item |-> item]
                  /\ (/\ request.op \in {"report_html", "report_pdf"}
                      /\ request.report_id = id
                      /\ request.at = now)
                     => request.status = 200 /\ request.result = item.result

====
